---- MODULE Spec2Model ----
(***************************************************************************)
(* A model of the RINA simulation core: DIF bandwidth admission            *)
(* (rina/dif.py), IPCP flow allocation and deallocation (rina/ipcp.py),    *)
(* and the per-flow resource commit, retransmission task and packet        *)
(* transmission of rina/flow.py.                                           *)
(*                                                                         *)
(* Scheduling.  The program runs on one asyncio event loop.  A coroutine   *)
(* only yields to other tasks when it awaits something that is not ready   *)
(* (a sleep, a held lock, an unfinished task).  IPCP.allocate_flow,        *)
(* IPCP.deallocate_flow, DIF.allocate_bandwidth, DIF.release_bandwidth and *)
(* one pass of the retransmission loop only await coroutines that run to   *)
(* completion without such a wait, so each of them is one atomic step.     *)
(***************************************************************************)
EXTENDS Integers, FiniteSets, Sequences, TLC

(***************************************************************************)
(* Bounds of the model.                                                    *)
(***************************************************************************)
MaxFlows == 2        \* flow ids (uuid4 values) that may ever be drawn
MaxPackets == 1      \* sequence numbers a flow may hand out
MaxRetransmit == 1   \* retransmissions counted per flow
MaxSends == 2        \* sent_packets a flow may count in the data-transfer runs
MaxDrops == 1        \* frames the link adapter may lose
MaxWindowPackets == 17  \* sequence numbers handed out in the window runs
MaxAcks == 2         \* ACK packets a flow may count
MaxReceives == 2     \* packets a flow may count as received
MaxValue == 7        \* max_value of the sequence space checked in full

(***************************************************************************)
(* The network under analysis: a layer-0 DIF D0 with A0 and B0, a second   *)
(* layer-0 DIF E0 with C0, and a layer-1 DIF D1 whose IPCPs A1 and B1 use  *)
(* A0 and B0 as their lower IPCPs.                                         *)
(***************************************************************************)
NoIPCP == "none"
NoFlow == 0
None == -1

DIFs == {"D0", "E0", "D1"}
IPCPs == {"A0", "B0", "C0", "A1", "B1"}

\* The IPCPs above and B2, which is constructed later than they are
Nodes == IPCPs \cup {"B2"}

max_bandwidth ==
  [d \in DIFs |-> CASE d = "D0" -> 3 [] d = "E0" -> 1 [] OTHER -> 2]

dif ==
  [i \in Nodes |-> CASE i \in {"A0", "B0"} -> "D0"
                     [] i = "C0" -> "E0"
                     [] OTHER -> "D1"]

lower_ipcp ==
  [i \in Nodes \cup {NoIPCP} |-> CASE i = "A1" -> "A0"
                                  [] i \in {"B1", "B2"} -> "B0"
                                  [] OTHER -> NoIPCP]

\* IPCP.higher_ipcp once the IPCPs of the set IPCPs are constructed, the
\* lower ones first
higher_ipcp_init ==
  [i \in Nodes |-> IF \E h \in IPCPs : lower_ipcp[h] = i
                   THEN CHOOSE h \in IPCPs : lower_ipcp[h] = i
                   ELSE NoIPCP]

FlowIds == 1..MaxFlows

\* Flow ids plus the slots a call uses for Flow objects it rejects again
Slots == 1..(MaxFlows + 2)

\* The (source, destination) pairs on which allocate_flow is called.
Pairs == {<<"A0", "B0">>, <<"B0", "A0">>, <<"A0", "C0">>, <<"A1", "B1">>}

\* QoS arguments: no QoS object, or a QoS with the given bandwidth.
NoQoS == [present |-> FALSE, bandwidth |-> None]
QoS(b) == [present |-> TRUE, bandwidth |-> b]
Bandwidths == {1, 2}
QoSArgs == {NoQoS} \cup {QoS(b) : b \in Bandwidths}

\* `flow.qos and flow.qos.bandwidth`
HasBandwidth(qos) == qos.present /\ qos.bandwidth # None /\ qos.bandwidth # 0

\* The applications: Application(name, ipcp).  appB and appB2 share B0.
NoApp == "noapp"
Apps == {"appA", "appB", "appB2", "appA1", "appB1"}

app_ipcp ==
  [a \in Apps |-> CASE a = "appA" -> "A0"
                    [] a = "appA1" -> "A1"
                    [] a = "appB1" -> "B1"
                    [] OTHER -> "B0"]

\* The port every flow is allocated on and every application binds to.
Port == 5000
Ports == {Port}

NoFlowRec ==
  [src_ipcp |-> NoIPCP, dest_ipcp |-> NoIPCP, port |-> Port, qos |-> NoQoS,
   lower_flow_id |-> NoFlow, state |-> "NONE",
   timeout_task |-> "none", retransmission_task |-> "none", next_seq |-> 0,
   recv_base |-> 0, send_base |-> 0, next_seq_num |-> 0,
   window_lock |-> "free", ack_received |-> FALSE, ack_packets |-> 0,
   unacked_packets |-> {}, expired |-> {}, out_of_order_buffer |-> {},
   sent_packets |-> 0, received_packets |-> 0, retransmitted_packets |-> 0,
   retry_count |-> 0,
   release_calls |-> 0,   \* history: the calls of _release_resources
   acks_sent |-> {},      \* history: the ack_seq_num of the ACKs _send_ack sent
   deallocated |-> 0]     \* history: the deallocate_flow calls that returned True

\* Flow.__init__ followed by FlowAllocationFSM.__init__
NewFlow(src, dest, qos) ==
  [NoFlowRec EXCEPT !.src_ipcp = src, !.dest_ipcp = dest, !.qos = qos,
                    !.state = "INITIALIZED"]

VARIABLES
  flows,                 \* IPCP.flows: the flow ids in each IPCP's table
  flow,                  \* the Flow object behind each flow id
  allocated_bandwidth,   \* DIF.allocated_bandwidth
  nextId,                \* the next flow id uuid4 will produce
  port_map,              \* IPCP.port_map: the application bound to each port
  app_port,              \* Application.port
  receive_buffer,        \* Application.receive_buffer
  net_cond,              \* the NetworkConditions object of the link A0 -> B0
  sent,                  \* history: the payloads the link accepted, per flow
  senders,               \* the coroutines that run Flow.send_data
  reliable,              \* the coroutines that run Application.send_reliable
  higher_ipcp,           \* IPCP.higher_ipcp
  last                   \* history: the call made by the last step

vars ==
  <<flows, flow, allocated_bandwidth, nextId, port_map, app_port,
    receive_buffer, net_cond, sent, senders, reliable, higher_ipcp, last>>

\* The program state the operations below transform.  Three fields are the
\* history of the call in progress: `released` collects the <<flow id, DIF>>
\* pairs for which deallocate_flow released that flow's bandwidth from that
\* DIF, `frames` the receive_data calls made (<<IPCP, frame, flow id>>) and
\* `upcalls` the on_data calls made (<<application, data>>).
State ==
  [flows |-> flows, flow |-> flow, allocated_bandwidth |-> allocated_bandwidth,
   nextId |-> nextId, port_map |-> port_map, app_port |-> app_port,
   receive_buffer |-> receive_buffer, net_cond |-> net_cond, sent |-> sent,
   senders |-> senders, reliable |-> reliable, higher_ipcp |-> higher_ipcp,
   released |-> {}, frames |-> <<>>, upcalls |-> <<>>]

Max(a, b) == IF a > b THEN a ELSE b

(***************************************************************************)
(* DIF                                                                     *)
(***************************************************************************)
\* the test of allocate_bandwidth refusing a request that fits exactly
allocate_bandwidth_ok_strict(s, d, bandwidth) ==
  \/ bandwidth = None
  \/ s.allocated_bandwidth[d] + bandwidth < max_bandwidth[d]

\* DIF.allocate_bandwidth: the return value
allocate_bandwidth_ok(s, d, bandwidth) ==
  \/ bandwidth = None
  \/ s.allocated_bandwidth[d] + bandwidth <= max_bandwidth[d]

\* DIF.allocate_bandwidth: the state it leaves
allocate_bandwidth(s, d, bandwidth) ==
  IF bandwidth # None /\ allocate_bandwidth_ok(s, d, bandwidth)
  THEN [s EXCEPT !.allocated_bandwidth[d] = @ + bandwidth]
  ELSE s

\* release_bandwidth without the clamp at 0
release_bandwidth_unclamped(s, d, bandwidth) ==
  IF bandwidth = None
  THEN s
  ELSE [s EXCEPT !.allocated_bandwidth[d] = @ - bandwidth]

\* DIF.release_bandwidth
release_bandwidth(s, d, bandwidth) ==
  IF bandwidth = None
  THEN s
  ELSE [s EXCEPT !.allocated_bandwidth[d] = Max(0, @ - bandwidth)]

(***************************************************************************)
(* FlowAllocationFSM                                                       *)
(***************************************************************************)
\* FlowAllocationFSM.confirm_allocation: cancel the timeout task, go ACTIVE
confirm_allocation(s, id) ==
  [s EXCEPT !.flow[id].timeout_task =
                IF @ = "pending" THEN "cancelled" ELSE @,
            !.flow[id].state = "ACTIVE"]

\* FlowAllocationFSM.start_allocation
start_allocation(s, id) ==
  confirm_allocation(
    [s EXCEPT !.flow[id].state = "REQUEST_SENT",
              !.flow[id].timeout_task = "pending"], id)

\* FlowAllocationFSM.handle_event("start_allocation")
handle_start_allocation(s, id) ==
  IF s.flow[id].state = "INITIALIZED" THEN start_allocation(s, id) ELSE s

(***************************************************************************)
(* IPCP.allocate_flow and Flow._commit_resources                           *)
(***************************************************************************)
\* _validate_flow_request rejecting a request that fits exactly
validate_flow_request_strict(s, self, id) ==
  LET qos == s.flow[id].qos
      available == max_bandwidth[dif[self]] - s.allocated_bandwidth[dif[self]]
  IN  ~(qos.present /\ qos.bandwidth # None /\ qos.bandwidth >= available)

\* the validation that admits a QoS without bandwidth only while the DIF
\* has bandwidth left
validate_flow_request_unset(s, self, id) ==
  LET qos == s.flow[id].qos
      available == max_bandwidth[dif[self]] - s.allocated_bandwidth[dif[self]]
  IN  ~(qos.present /\ (\/ qos.bandwidth = None /\ available <= 0
                        \/ qos.bandwidth # None /\ qos.bandwidth > available))

\* IPCP._validate_flow_request
validate_flow_request(s, self, id) ==
  LET qos == s.flow[id].qos
      available == max_bandwidth[dif[self]] - s.allocated_bandwidth[dif[self]]
  IN  ~(qos.present /\ qos.bandwidth # None /\ qos.bandwidth > available)

\* IPCP._handle_flow_request
handle_flow_request(s, self, id) == TRUE

\* `del self.flows[flow_id]` and, if present, `del dest_ipcp.flows[flow_id]`
unregister(s, self, dest_ipcp, id) ==
  [s EXCEPT !.flows = [i \in Nodes |->
                         IF i \in {self, dest_ipcp} THEN @[i] \ {id} ELSE @[i]]]

\* The rollback of Flow._commit_resources after a failed lower allocation
rollback_bandwidth(s, id) ==
  LET f == s.flow[id]
      b == f.qos.bandwidth
      s1 == release_bandwidth(s, dif[f.src_ipcp], b)
  IN  IF ~HasBandwidth(f.qos) THEN s
      ELSE IF dif[f.dest_ipcp] # dif[f.src_ipcp]
           THEN release_bandwidth(s1, dif[f.dest_ipcp], b)
           ELSE s1

RECURSIVE allocate_flow(_, _, _, _)

\* Flow._commit_resources: [s |-> state after, ret |-> return value]
commit_resources(s, id) ==
  LET f == s.flow[id]
      b == f.qos.bandwidth
      srcd == dif[f.src_ipcp]
      dstd == dif[f.dest_ipcp]
      reserve == HasBandwidth(f.qos)
      src_allocation == allocate_bandwidth_ok(s, srcd, b)
      s1 == allocate_bandwidth(s, srcd, b)
      dest_allocation == IF dstd # srcd
                         THEN allocate_bandwidth_ok(s1, dstd, b) ELSE TRUE
      s2 == IF dstd # srcd THEN allocate_bandwidth(s1, dstd, b) ELSE s1
      \* roll back after a failed reservation
      r1 == IF src_allocation THEN release_bandwidth(s2, srcd, b) ELSE s2
      r2 == IF dest_allocation /\ dstd # srcd
            THEN release_bandwidth(r1, dstd, b) ELSE r1
      s3 == IF reserve THEN s2 ELSE s
      low == allocate_flow(s3, lower_ipcp[f.src_ipcp],
                           lower_ipcp[f.dest_ipcp], f.qos)
      s4 == [low.s EXCEPT !.flow[id].lower_flow_id = low.ret]
      s5 == IF lower_ipcp[f.src_ipcp] # NoIPCP THEN s4 ELSE s3
  IN  IF reserve /\ (~src_allocation \/ ~dest_allocation)
      THEN [s |-> r2, ret |-> FALSE]
      ELSE IF lower_ipcp[f.src_ipcp] # NoIPCP /\ low.ret = NoFlow
      THEN [s |-> rollback_bandwidth(s4, id), ret |-> FALSE]
      ELSE [s |-> [s5 EXCEPT !.flow[id].retransmission_task = "running"],
            ret |-> TRUE]

\* IPCP.allocate_flow: [s |-> state after, ret |-> flow id or NoFlow]
allocate_flow(s, self, dest_ipcp, qos) ==
  IF self = NoIPCP \/ dest_ipcp = NoIPCP
  THEN \* dest_ipcp.id raises AttributeError; the except clause returns None
       [s |-> s, ret |-> NoFlow]
  ELSE
  LET flow_id == s.nextId
      s1 == [s EXCEPT !.nextId = @ + 1,
                      !.flow[flow_id] = NewFlow(self, dest_ipcp, qos),
                      !.flows[self] = @ \cup {flow_id}]
      s2 == [s1 EXCEPT !.flows[dest_ipcp] = @ \cup {flow_id}]
      \* a rejected Flow object is referenced by nothing and is collected;
      \* its id was shown to nobody, so the model hands it out again
      rejected == [unregister(s2, self, dest_ipcp, flow_id)
                     EXCEPT !.flow[flow_id] = NoFlowRec, !.nextId = flow_id]
      s3 == handle_start_allocation(s2, flow_id)
      \* the return value of _commit_resources is not looked at
      s4 == commit_resources(s3, flow_id).s
  IN  IF ~validate_flow_request(s2, self, flow_id)
      THEN [s |-> rejected, ret |-> NoFlow]
      ELSE IF ~handle_flow_request(s2, self, flow_id)
      THEN [s |-> rejected, ret |-> NoFlow]
      ELSE [s |-> s4, ret |-> flow_id]

(***************************************************************************)
(* IPCP.deallocate_flow                                                    *)
(***************************************************************************)
\* history: deallocate_flow released flow id's bandwidth from DIF d
note_release(s, id, d) ==
  [s EXCEPT !.released = @ \cup {<<id, d>>}]

\* the removal without `del self.flows[flow_id]`
remove_flow_peer_only(s, self, dest_ipcp, flow_id) ==
  [s EXCEPT !.flows[dest_ipcp] = @ \ {flow_id}]

\* `del self.flows[flow_id]`, then the destination's entry if it is present
remove_flow(s, self, dest_ipcp, flow_id) ==
  LET s1 == [s EXCEPT !.flows[self] = @ \ {flow_id}]
  IN  [s1 EXCEPT !.flows[dest_ipcp] = @ \ {flow_id}]

RECURSIVE deallocate_flow(_, _, _)

\* IPCP.deallocate_flow: [s |-> state after, ret |-> return value]
deallocate_flow(s, self, flow_id) ==
  IF flow_id \in s.flows[self]
  THEN
    LET f == s.flow[flow_id]
        b == f.qos.bandwidth
        own == dif[self]
        peer == dif[f.dest_ipcp]
        s1 == note_release(release_bandwidth(s, own, b), flow_id, own)
        s2 == IF peer # own
              THEN note_release(release_bandwidth(s1, peer, b), flow_id, peer)
              ELSE s1
        s3 == IF HasBandwidth(f.qos) THEN s2 ELSE s
        s4 == IF f.lower_flow_id # NoFlow /\ lower_ipcp[self] # NoIPCP
              THEN deallocate_flow(s3, lower_ipcp[self], f.lower_flow_id).s
              ELSE s3
    IN  [s |-> [remove_flow(s4, self, f.dest_ipcp, flow_id)
                  EXCEPT !.flow[flow_id].deallocated = @ + 1],
         ret |-> TRUE]
  ELSE [s |-> s, ret |-> FALSE]

(***************************************************************************)
(* FlowAllocationFSM.deallocate and Flow._release_resources.  Cancelling   *)
(* the retransmission task and awaiting it suspends the caller until the   *)
(* task has taken the cancellation, so the release runs in two steps when  *)
(* that task is running and in one step otherwise.                         *)
(***************************************************************************)
\* Flow._release_resources from the end of `await self.retransmission_task`
release_resources_resume(s, id) ==
  LET f == s.flow[id]
      b == f.qos.bandwidth
      s1 == [s EXCEPT !.flow[id].retransmission_task =
                          IF @ = "cancelling" THEN "cancelled" ELSE @]
      s2 == release_bandwidth(s1, dif[f.src_ipcp], b)
      s3 == IF dif[f.dest_ipcp] # dif[f.src_ipcp]
            THEN release_bandwidth(s2, dif[f.dest_ipcp], b)
            ELSE s2
      s4 == IF HasBandwidth(f.qos) THEN s3 ELSE s1
      s5 == IF f.lower_flow_id # NoFlow
            THEN deallocate_flow(s4, lower_ipcp[f.src_ipcp], f.lower_flow_id).s
            ELSE s4
  IN  [s5 EXCEPT !.flow[id].state = "CLOSED"]

\* deallocate without the test for CLOSED and DEALLOCATING
fsm_deallocate_unguarded(s, id) ==
  LET f == s.flow[id]
      s1 == [s EXCEPT !.flow[id].state = "DEALLOCATING",
                      !.flow[id].timeout_task =
                          IF @ = "pending" THEN "cancelled" ELSE @,
                      !.flow[id].release_calls = @ + 1]
  IN  IF f.retransmission_task = "running"
      THEN [s1 EXCEPT !.flow[id].retransmission_task = "cancelling"]
      ELSE release_resources_resume(s1, id)

\* deallocate that tests for CLOSED only, so that a second deallocate
\* arriving during the release runs the release again
fsm_deallocate_closed_only(s, id) ==
  LET f == s.flow[id]
      s1 == [s EXCEPT !.flow[id].state = "DEALLOCATING",
                      !.flow[id].timeout_task =
                          IF @ = "pending" THEN "cancelled" ELSE @,
                      !.flow[id].release_calls = @ + 1]
  IN  IF f.state = "CLOSED"
      THEN s
      ELSE IF f.retransmission_task = "running"
      THEN [s1 EXCEPT !.flow[id].retransmission_task = "cancelling"]
      ELSE release_resources_resume(s1, id)

\* FlowAllocationFSM.deallocate up to the first suspension of
\* Flow._release_resources, or to its end when it does not suspend
fsm_deallocate(s, id) ==
  LET f == s.flow[id]
      s1 == [s EXCEPT !.flow[id].state = "DEALLOCATING",
                      !.flow[id].timeout_task =
                          IF @ = "pending" THEN "cancelled" ELSE @,
                      !.flow[id].release_calls = @ + 1]
  IN  IF f.state \in {"CLOSED", "DEALLOCATING"}
      THEN s
      ELSE IF f.retransmission_task = "running"
      THEN [s1 EXCEPT !.flow[id].retransmission_task = "cancelling"]
      ELSE release_resources_resume(s1, id)

\* the retries FlowAllocationFSM.handle_timeout allows
retry_limit == 3

\* FlowAllocationFSM.handle_timeout
handle_timeout(s, id) ==
  IF s.flow[id].retry_count < retry_limit
  THEN start_allocation([s EXCEPT !.flow[id].retry_count = @ + 1], id)
  ELSE fsm_deallocate(s, id)

\* The events handle_event is given
Events ==
  {"start_allocation", "allocation_confirmed", "allocation_timeout",
   "deallocate"}

\* FlowAllocationFSM.handle_event, up to the first suspension of deallocate
handle_event(s, id, event) ==
  LET state == s.flow[id].state
  IN  IF state = "INITIALIZED" /\ event = "start_allocation"
      THEN start_allocation(s, id)
      ELSE IF state = "REQUEST_SENT" /\ event = "allocation_confirmed"
      THEN confirm_allocation(s, id)
      ELSE IF state = "REQUEST_SENT" /\ event = "allocation_timeout"
      THEN handle_timeout(s, id)
      ELSE IF event = "deallocate"
      THEN fsm_deallocate(s, id)
      ELSE s

(***************************************************************************)
(* Data transfer: IPCP.send_data, IPCP.receive_data, Application.on_data   *)
(* and Application.send, Flow._send_packet and the retransmission task.    *)
(* What travels is a record [header, seq_num, data]: header is the flow id *)
(* of the encapsulation header {"header": {"flow_id": ..}, "payload": ..}  *)
(* or NoFlow when there is none; seq_num is the sequence number of the     *)
(* packet dict built by _send_packet, or None for a bare bytes payload.    *)
(***************************************************************************)
SeqModulus == 65536

\* The bytes payloads applications are sent
Payloads == {"hello", "ping"}

\* a bytes object b"..."
Bytes(p) == [header |-> NoFlow, seq_num |-> None, data |-> p]

\* {"seq_num": seq_num, "is_ack": False, "data": data}
Packet(seq_num, data) == [data EXCEPT !.seq_num = seq_num]

\* {"header": {"flow_id": flow_id, "qos": ..}, "payload": data}
Encapsulate(flow_id, data) == [data EXCEPT !.header = flow_id]

\* data['payload']
Payload(data) == [data EXCEPT !.header = NoFlow]

\* isinstance(data, dict) and 'header' in data
IsEncapsulated(data) == data.header # NoFlow

\* history: a call of send_data or receive_data on an IPCP
note_frame(s, fn, self, flow_id, data) ==
  [s EXCEPT !.frames = Append(@, <<fn, self, flow_id, data>>)]

\* the number of entries of the sequence log that equal entry
Occurrences(log, entry) ==
  Cardinality({k \in 1..Len(log) : log[k] = entry})

\* a call that returned, and a call that an exception left
Returned(s) == [s |-> s, raised |-> FALSE, error |-> "none"]
Raised(s, error) == [s |-> s, raised |-> TRUE, error |-> error]

\* next(iter(self.ipcp.flows)): tables are filled in the order ids are drawn
SetMin(S) == CHOOSE x \in S : \A y \in S : x <= y

RECURSIVE send_data(_, _, _, _)

\* Application.send
app_send(s, app, data) ==
  IF s.flows[app_ipcp[app]] = {}
  THEN Raised(s, "ValueError")
  ELSE send_data(s, app_ipcp[app], SetMin(s.flows[app_ipcp[app]]), data)

\* on_data answering every payload but b"pong" itself with b"pong"
on_data_answer_all(s, app, data) ==
  LET s1 == [s EXCEPT !.receive_buffer[app] = Append(@, data),
                      !.upcalls = Append(@, <<app, data>>)]
  IN  IF data # Bytes("pong")
      THEN app_send(s1, app, Bytes("pong"))
      ELSE Returned(s1)

\* Application.on_data
on_data(s, app, data) ==
  LET s1 == [s EXCEPT !.receive_buffer[app] = Append(@, data),
                      !.upcalls = Append(@, <<app, data>>)]
  IN  IF data = Bytes("ping")
      THEN app_send(s1, app, Bytes("pong"))
      ELSE Returned(s1)

\* the receiver that hands every encapsulated frame to the local flow
receive_data_no_demux(s, self, data, flow_id) ==
  LET s0 == note_frame(s, "receive_data", self, flow_id, data)
      f == s0.flow[flow_id]
      s1 == [s0 EXCEPT !.flow[flow_id].received_packets = @ + 1]
  IN  IF flow_id \in s0.flows[self]
      THEN IF s1.port_map[self][f.port] # NoApp
           THEN on_data(s1, s1.port_map[self][f.port], Payload(data))
           ELSE Returned(s1)
      ELSE Returned(s0)

RECURSIVE receive_data(_, _, _, _)

\* IPCP.receive_data
receive_data(s, self, data, flow_id) ==
  LET s0 == note_frame(s, "receive_data", self, flow_id, data)
      f == s0.flow[flow_id]
      s1 == [s0 EXCEPT !.flow[flow_id].received_packets = @ + 1]
  IN  IF IsEncapsulated(data)
      THEN IF s.higher_ipcp[self] # NoIPCP
           THEN receive_data(s0, s.higher_ipcp[self], Payload(data),
                             data.header)
           ELSE Returned(s0)
      ELSE IF flow_id \in s0.flows[self]
           THEN IF s1.port_map[self][f.port] # NoApp
                THEN on_data(s1, s1.port_map[self][f.port], data)
                ELSE Returned(s1)
           ELSE Returned(s0)

\* send_data updating the statistics before its two checks
send_data_count_first(s, self, flow_id, data) ==
  LET f == s.flow[flow_id]
      s1 == [s EXCEPT !.flow[flow_id].sent_packets = @ + 1]
      s2 == note_frame(s1, "send_data", self, flow_id, data)
  IN  IF flow_id \notin s.flows[self]
      THEN Raised(s1, "ValueError")
      ELSE IF f.state # "ACTIVE"
      THEN Raised(s1, "ConnectionError")
      ELSE IF f.lower_flow_id # NoFlow /\ lower_ipcp[self] # NoIPCP
      THEN send_data(s2, lower_ipcp[self], f.lower_flow_id,
                     Encapsulate(flow_id, data))
      ELSE receive_data(s2, f.dest_ipcp, data, flow_id)

\* IPCP.send_data: the state after, and the exception that left the call
send_data(s, self, flow_id, data) ==
  IF flow_id \notin s.flows[self]
  THEN Raised(s, "ValueError")
  ELSE IF s.flow[flow_id].state # "ACTIVE"
  THEN Raised(s, "ConnectionError")
  ELSE
    LET f == s.flow[flow_id]
        s0 == note_frame(s, "send_data", self, flow_id, data)
        s1 == [s0 EXCEPT !.flow[flow_id].sent_packets = @ + 1]
    IN  IF f.lower_flow_id # NoFlow /\ lower_ipcp[self] # NoIPCP
        THEN send_data(s1, lower_ipcp[self], f.lower_flow_id,
                       Encapsulate(flow_id, data))
        ELSE receive_data(s1, f.dest_ipcp, data, flow_id)

\* Flow._send_packet: seq_num = None draws the next sequence number
send_packet(s, id, data, seq_num, is_retransmission) ==
  LET f == s.flow[id]
      seq == IF seq_num = None THEN f.next_seq ELSE seq_num
      s1 == IF seq_num = None
            THEN [s EXCEPT !.flow[id].next_seq = (@ + 1) % SeqModulus]
            ELSE s
      s2 == IF ~is_retransmission
            THEN [s1 EXCEPT !.flow[id].unacked_packets = @ \cup {seq}]
            ELSE s1
      s3 == [s2 EXCEPT !.flow[id].sent_packets = @ + 1]
  IN  IF f.lower_flow_id # NoFlow /\ lower_ipcp[f.src_ipcp] # NoIPCP
      THEN send_data(s3, lower_ipcp[f.src_ipcp], f.lower_flow_id,
                     Encapsulate(id, Packet(seq, data)))
      ELSE receive_data(s3, f.dest_ipcp, Packet(seq, data), id)

\* The payload of every direct _send_packet call of the model, so that it is
\* also the data unacked_packets holds for each sequence number.
PacketData == Bytes("hello")

RECURSIVE retransmit(_, _, _)

\* The body of Flow._retransmission_loop between two sleeps: retransmit
\* every timed-out packet; an exception from _send_packet ends the task.
retransmit(s, id, todo) ==
  IF todo = {}
  THEN s
  ELSE LET seq == SetMin(todo)   \* the loop visits them in insertion order
           r == send_packet(s, id, PacketData, seq, TRUE)
       IN  IF r.raised
           THEN [r.s EXCEPT !.flow[id].retransmission_task = "failed"]
           ELSE retransmit(
                  [r.s EXCEPT !.flow[id].retransmitted_packets = @ + 1],
                  id, todo \ {seq})

\* the scan under window_lock: packets whose timeout has passed
retransmit_packets(f) == f.unacked_packets \cap f.expired

(***************************************************************************)
(* Flow.send_data and Flow._handle_ack.  asyncio.Lock is not reentrant and *)
(* acquiring a free lock does not suspend, so a coroutine runs from one    *)
(* suspension to the next as one step.  window_lock is "free" or names the *)
(* sender that holds it.                                                   *)
(***************************************************************************)
window_size == 16

Senders == {"s1", "s2"}

\* a coroutine that is not inside Flow.send_data
NoSender == [pc |-> "idle", id |-> NoFlow, seq_num |-> None, waited |-> FALSE]

\* the loop test of Flow.send_data with one more slot than window_size
window_full_one_more(f) ==
  Cardinality(f.unacked_packets) > window_size

\* the loop test of Flow.send_data: len(unacked_packets) >= window_size
window_full(f) ==
  Cardinality(f.unacked_packets) >= window_size

\* Flow.send_data from the point where sender t holds window_lock to its next
\* suspension.  A full window: release the lock and wait for ack_received.
\* Otherwise: draw the sequence number and call _send_packet, whose
\* `async with self.window_lock` waits for the lock this sender holds.
window_loop(s, t, id) ==
  LET f == s.flow[id]
  IN  IF window_full(f)
      THEN [s EXCEPT !.flow[id].window_lock = "free",
                     !.senders[t].pc = "waiting",
                     !.senders[t].waited = TRUE]
      ELSE [s EXCEPT !.flow[id].window_lock = t,
                     !.flow[id].next_seq = (@ + 1) % SeqModulus,
                     !.senders[t].pc = "in_send_packet",
                     !.senders[t].seq_num = f.next_seq]

\* acquire window_lock: a lock that is held suspends the sender
acquire_window_lock(s, t, id) ==
  IF s.flow[id].window_lock = "free"
  THEN window_loop(s, t, id)
  ELSE [s EXCEPT !.senders[t].pc = "blocked"]

\* Flow.send_data up to its first suspension
flow_send_data(s, t, id) ==
  IF s.flow[id].state # "ACTIVE"
  THEN Raised(s, "ConnectionError")
  ELSE Returned(acquire_window_lock(
                  [s EXCEPT !.senders[t] = [NoSender EXCEPT !.id = id]],
                  t, id))

\* Flow.send_data after asyncio.wait_for(self.ack_received.wait(), timeout):
\* the event is cleared unless the wait timed out, the lock is reacquired
wake_up(s, t, timed_out) ==
  LET id == s.senders[t].id
      s1 == IF timed_out THEN s
            ELSE [s EXCEPT !.flow[id].ack_received = FALSE]
  IN  acquire_window_lock(s1, t, id)

\* the keys _handle_ack deletes from unacked_packets
to_remove(f, ack_seq) ==
  {seq \in f.unacked_packets :
     (ack_seq >= seq) \/ (ack_seq < seq /\ ack_seq < f.send_base)}

\* Flow._handle_ack for an ACK packet that carries ack_seq_num
handle_ack(s, id, ack_seq) ==
  LET f == s.flow[id]
      unacked == f.unacked_packets \ to_remove(f, ack_seq)
  IN  [s EXCEPT !.flow[id].ack_packets = @ + 1,
                !.flow[id].unacked_packets = unacked,
                !.flow[id].expired = @ \cap unacked,
                !.flow[id].send_base =
                   IF unacked = {} THEN f.next_seq_num ELSE SetMin(unacked),
                !.flow[id].ack_received = TRUE]

(***************************************************************************)
(* The receiving side of a flow: Flow.receive_data, _handle_data_packet    *)
(* and _send_ack.  out_of_order_buffer is the set of the sequence numbers  *)
(* it holds a payload for.                                                 *)
(***************************************************************************)
\* {"is_ack": True, "ack_seq_num": ack_seq}
AckPacket(ack_seq) == [header |-> NoFlow, seq_num |-> ack_seq, data |-> "is_ack"]

\* packet.get("is_ack", False)
is_ack(packet) == packet.data = "is_ack"

\* is_in_window taking the wrapping branch one window size early
is_in_window_wrap_early(seq_num, base_seq, size, max_value) ==
  IF base_seq + size >= max_value
  THEN seq_num >= base_seq \/ seq_num < (base_seq + size) % (max_value + 1)
  ELSE base_seq <= seq_num /\ seq_num < base_seq + size

\* SequenceNumber.is_in_window
is_in_window(seq_num, base_seq, size, max_value) ==
  IF base_seq + size > max_value
  THEN seq_num >= base_seq \/ seq_num < (base_seq + size) % (max_value + 1)
  ELSE base_seq <= seq_num /\ seq_num < base_seq + size

\* Flow._send_ack
send_ack(s, id, ack_packet) ==
  LET f == s.flow[id]
  IN  IF f.lower_flow_id # NoFlow /\ lower_ipcp[f.src_ipcp] # NoIPCP
      THEN IF lower_ipcp[f.dest_ipcp] = NoIPCP
           THEN Raised(s, "AttributeError")
           ELSE send_data(s, lower_ipcp[f.dest_ipcp], f.lower_flow_id,
                          Encapsulate(id, ack_packet))
      ELSE receive_data(s, f.src_ipcp, ack_packet, id)

\* Flow._handle_data_packet.  IPCP has no attribute deliver_to_application:
\* the call for the expected sequence number raises AttributeError before
\* recv_base changes
handle_data_packet(s, id, packet) ==
  LET f == s.flow[id]
      seq_num == packet.seq_num
      s1 == IF is_in_window(seq_num, f.recv_base, window_size,
                            SeqModulus - 1)
            THEN [s EXCEPT !.flow[id].out_of_order_buffer = @ \cup {seq_num}]
            ELSE s
  IN  IF seq_num = f.recv_base
      THEN Raised(s, "AttributeError")
      ELSE send_ack([s1 EXCEPT !.flow[id].acks_sent =
                                   @ \cup {(f.recv_base - 1) % SeqModulus}],
                    id, AckPacket((f.recv_base - 1) % SeqModulus))

\* Flow.receive_data: a bytes object is not a dict
flow_receive_data(s, id, packet) ==
  IF packet.seq_num = None
  THEN Returned(s)
  ELSE IF is_ack(packet)
  THEN Returned(handle_ack(s, id, packet.seq_num))
  ELSE handle_data_packet(s, id, packet)

(***************************************************************************)
(* Application.send_reliable.  The call runs as one step up to the         *)
(* asyncio.sleep(1) that follows a failed allocation attempt, and from     *)
(* the end of a sleep to the next one or to its end.                       *)
(***************************************************************************)
retries == 3

Callers == {"c1", "c2"}

\* a coroutine that is not inside Application.send_reliable
NoReliable ==
  [pc |-> "idle", app |-> NoApp, dest_app |-> NoApp, data |-> "",
   qos |-> NoQoS, attempts |-> 0]

\* the flows of the sender's IPCP with the destination application's IPCP
\* and port
matching_flows(s, app, dest_app) ==
  {id \in s.flows[app_ipcp[app]] :
     /\ s.flow[id].dest_ipcp = app_ipcp[dest_app]
     /\ s.flow[id].port = s.app_port[dest_app]}

\* send_reliable from `await self.ipcp.send_data(flow_id, data)` to its end
reliable_send(s, c, flow_id) ==
  LET call == s.reliable[c]
      r == send_data(s, app_ipcp[call.app], flow_id, Bytes(call.data))
  IN  [r EXCEPT !.s = [r.s EXCEPT !.reliable[c] = NoReliable]]

\* one turn of the loop `for _ in range(retries)`
reliable_attempt(s, c) ==
  LET call == s.reliable[c]
      r == allocate_flow(s, app_ipcp[call.app], app_ipcp[call.dest_app],
                         call.qos)
  IN  IF r.ret # NoFlow
      THEN reliable_send(r.s, c, r.ret)
      ELSE Returned([r.s EXCEPT !.reliable[c].pc = "sleeping",
                                !.reliable[c].attempts = @ + 1])

\* send_reliable after asyncio.sleep(1)
reliable_wake(s, c) ==
  IF s.reliable[c].attempts < retries
  THEN reliable_attempt(s, c)
  ELSE Raised([s EXCEPT !.reliable[c] = NoReliable], "ConnectionError")

\* Application.send_reliable(dest_app, data, qos) up to its first suspension
send_reliable(s, c, app, dest_app, data, qos) ==
  LET found == matching_flows(s, app, dest_app)
      s1 == [s EXCEPT !.reliable[c] =
                [NoReliable EXCEPT !.pc = "started", !.app = app,
                                   !.dest_app = dest_app, !.data = data,
                                   !.qos = qos]]
  IN  IF found # {}
      THEN reliable_send(s1, c, SetMin(found))
      ELSE reliable_attempt(s1, c)

(***************************************************************************)
(* The link adapter of network_conditions.py.  set_network_conditions      *)
(* replaces the send_data of the source IPCP by intercepted_send_data,     *)
(* which queues each frame; the task _process_queue takes the frames one   *)
(* by one and loses, delays or reorders each (corruption_rate is 0 here).  *)
(* A delay is a sleep, and the delays depend on latency_ms, jitter_ms and  *)
(* the random jitter drawn per frame, so the sleeping deliveries may end   *)
(* in any order.                                                           *)
(***************************************************************************)
LinkSrc == "A0"
LinkDst == "B0"

\* NetworkConditions.__init__: the queue, the _delayed_delivery coroutines
\* that sleep, and (history) the number of frames lost so far
NoTraffic == [queue |-> <<>>, delayed |-> {}, dropped |-> 0]

\* intercepted_send_data: [s |-> state after, ret |-> True was returned]
intercepted_send_data(s, flow_id, data) ==
  LET item == [n |-> Len(s.sent[flow_id]) + 1, packet |-> data,
               dest_ipcp |-> s.flow[flow_id].dest_ipcp, flow_id |-> flow_id]
  IN  IF flow_id \in s.flows[LinkSrc]
      THEN IF s.flow[flow_id].dest_ipcp = LinkDst
           THEN [s |-> [s EXCEPT !.net_cond.queue = Append(@, item),
                                 !.sent[flow_id] = Append(@, data.data)],
                 ret |-> TRUE]
           ELSE [s |-> send_data(s, LinkSrc, flow_id, data).s, ret |-> FALSE]
      ELSE [s |-> s, ret |-> FALSE]

\* the loop of _process_queue is not inside `await self._delayed_delivery`
QueueLoopReady(s) == \A x \in s.net_cond.delayed : ~x.inline

\* One turn of the loop of NetworkConditions._process_queue up to its next
\* suspension: the frame is lost, or its delivery is started as a task of
\* its own (reordering), or the loop itself awaits the delivery.
process_queue(s, outcome) ==
  LET item == Head(s.net_cond.queue)
      s1 == [s EXCEPT !.net_cond.queue = Tail(@)]
      task == [item |-> item, inline |-> outcome = "deliver"]
  IN  IF outcome = "drop"
      THEN [s1 EXCEPT !.net_cond.dropped = @ + 1]
      ELSE [s1 EXCEPT !.net_cond.delayed = @ \cup {task}]

\* NetworkConditions._delayed_delivery from the end of its sleep; whatever
\* receive_data raises is caught and printed
delayed_delivery(s, x) ==
  LET i == x.item
      s1 == [s EXCEPT !.net_cond.delayed = @ \ {x}]
      formatted_packet ==
        IF i.packet.seq_num = None /\ ~IsEncapsulated(i.packet)
        THEN Packet(s1.flow[i.flow_id].recv_base, i.packet)
        ELSE i.packet
  IN  IF i.flow_id \in s1.flows[i.dest_ipcp]
      THEN receive_data(s1, i.dest_ipcp, formatted_packet, i.flow_id).s
      ELSE s1

(***************************************************************************)
(* Initial state: the DIFs and IPCPs are constructed, nothing is allocated *)
(***************************************************************************)
\* The record of a call: the operation; the IPCP it was called on; for
\* allocate_flow the destination, the QoS, the id drawn and, when an id is
\* returned, the DIFs' bandwidth before the call; for deallocate_flow the id,
\* whether the flow was in both its endpoints' tables before the call, and
\* the bandwidth releases made; ret: an id or True was returned.
NoBandwidth == [d \in DIFs |-> 0]

\* For bind the application; for send_data the bytes sent, the exception
\* that left the call, and the receive_data, send_data and on_data calls it
\* made.
NoCall ==
  [op |-> "none", ipcp |-> NoIPCP, dest |-> NoIPCP, qos |-> NoQoS,
   dif |-> "none", seq |-> None, state |-> "NONE",
   base |-> None, size |-> None, max_value |-> None,
   id |-> NoFlow, ret |-> FALSE, before |-> NoBandwidth, both |-> FALSE,
   released |-> {}, app |-> NoApp, data |-> "", error |-> "none",
   frames |-> <<>>, upcalls |-> <<>>]

Init ==
  /\ flows = [i \in Nodes |-> {}]
  /\ flow = [id \in Slots |-> NoFlowRec]
  /\ allocated_bandwidth = [d \in DIFs |-> 0]
  /\ nextId = 1
  /\ port_map = [i \in Nodes |-> [p \in Ports |-> NoApp]]
  /\ app_port = [a \in Apps |-> None]
  /\ receive_buffer = [a \in Apps |-> <<>>]
  /\ net_cond = NoTraffic
  /\ sent = [id \in Slots |-> <<>>]
  /\ senders = [t \in Senders |-> NoSender]
  /\ reliable = [c \in Callers |-> NoReliable]
  /\ higher_ipcp = higher_ipcp_init
  /\ last = NoCall

Install(s) ==
  /\ flows' = s.flows
  /\ flow' = s.flow
  /\ allocated_bandwidth' = s.allocated_bandwidth
  /\ nextId' = s.nextId
  /\ port_map' = s.port_map
  /\ app_port' = s.app_port
  /\ receive_buffer' = s.receive_buffer
  /\ net_cond' = s.net_cond
  /\ sent' = s.sent
  /\ senders' = s.senders
  /\ reliable' = s.reliable
  /\ higher_ipcp' = s.higher_ipcp

Call(op, self, id, ret) ==
  [NoCall EXCEPT !.op = op, !.ipcp = self, !.id = id, !.ret = ret]

\* flow id is in the tables of both its endpoints
InBothTables(id) ==
  /\ flow[id].state # "NONE"
  /\ id \in flows[flow[id].src_ipcp]
  /\ id \in flows[flow[id].dest_ipcp]

(***************************************************************************)
(* Actions: one per operation a caller can invoke                          *)
(***************************************************************************)
\* await self.allocate_flow(dest_ipcp, port, qos)
AllocateFlow(self, dest_ipcp, qos) ==
  /\ LET r == allocate_flow(State, self, dest_ipcp, qos)
     IN  /\ r.s.nextId <= MaxFlows + 1
         /\ Install(r.s)
         /\ last' = [Call("allocate_flow", self, nextId, r.ret # NoFlow)
                       EXCEPT !.dest = dest_ipcp, !.qos = qos,
                              !.before = IF r.ret # NoFlow
                                         THEN allocated_bandwidth
                                         ELSE NoBandwidth]

\* await self.deallocate_flow(flow_id)
DeallocateFlow(self, flow_id) ==
  /\ LET r == deallocate_flow(State, self, flow_id)
     IN  /\ Install(r.s)
         /\ last' = [Call("deallocate_flow", self, flow_id, r.ret)
                       EXCEPT !.both = InBothTables(flow_id),
                              !.released = r.s.released]

\* dif.allocate_bandwidth(bandwidth), called directly
AllocateBandwidth(d, bandwidth) ==
  /\ Install(allocate_bandwidth(State, d, bandwidth))
  /\ last' = [Call("allocate_bandwidth", NoIPCP, NoFlow,
                   allocate_bandwidth_ok(State, d, bandwidth))
                EXCEPT !.dif = d, !.qos = QoS(bandwidth)]

\* dif.release_bandwidth(bandwidth), called directly
ReleaseBandwidth(d, bandwidth) ==
  /\ Install(release_bandwidth(State, d, bandwidth))
  /\ last' = [Call("release_bandwidth", NoIPCP, NoFlow, TRUE)
                EXCEPT !.dif = d, !.qos = QoS(bandwidth)]

\* await flow._send_packet(data), for a Flow object the caller holds
SendPacketUpTo(id, max) ==
  /\ flow[id].state # "NONE"
  /\ flow[id].next_seq < max
  /\ flow[id].window_lock = "free"
  /\ LET r == send_packet(State, id, PacketData, None, FALSE)
     IN  /\ Install(r.s)
         /\ last' = Call("send_packet", NoIPCP, id, ~r.raised)

SendPacket(id) == SendPacketUpTo(id, MaxPackets)

\* more than Flow.timeout seconds pass: every packet sent so far is timed out
TimeElapses ==
  /\ \E id \in FlowIds : flow[id].unacked_packets # flow[id].expired
  /\ flow' = [id \in Slots |->
                [flow[id] EXCEPT !.expired = flow[id].unacked_packets]]
  /\ last' = Call("time", NoIPCP, NoFlow, TRUE)
  /\ UNCHANGED <<flows, allocated_bandwidth, nextId, port_map, app_port,
                 receive_buffer, net_cond, sent, senders, reliable,
                 higher_ipcp>>

\* one pass of the retransmission task of flow id that finds work
RetransmissionLoop(id) ==
  /\ flow[id].retransmission_task = "running"
  /\ flow[id].window_lock = "free"
  /\ retransmit_packets(flow[id]) # {}
  /\ flow[id].retransmitted_packets + Cardinality(retransmit_packets(flow[id]))
       <= MaxRetransmit
  /\ Install(retransmit(State, id, retransmit_packets(flow[id])))
  /\ last' = Call("retransmission", NoIPCP, id, TRUE)

\* await flow.send_data(data) is called in coroutine t
FlowSendData(t, id) ==
  /\ senders[t].pc = "idle"
  /\ flow[id].state # "NONE"
  /\ LET r == flow_send_data(State, t, id)
     IN  /\ Install(r.s)
         /\ last' = [Call("flow_send_data", NoIPCP, id, ~r.raised)
                       EXCEPT !.error = r.error]

\* the wait of sender t for ack_received ends, by the event or by the timeout
WakeUp(t, timed_out) ==
  /\ senders[t].pc = "waiting"
  /\ ~timed_out => flow[senders[t].id].ack_received
  /\ Install(wake_up(State, t, timed_out))
  /\ last' = Call("wake_up", NoIPCP, senders[t].id, ~timed_out)

\* await flow.receive_data({"is_ack": True, "ack_seq_num": ack_seq})
HandleAck(id, ack_seq) ==
  /\ flow[id].state # "NONE"
  /\ flow[id].window_lock = "free"
  /\ flow[id].ack_packets < MaxAcks
  /\ Install(handle_ack(State, id, ack_seq))
  /\ last' = [Call("handle_ack", NoIPCP, id, TRUE) EXCEPT !.seq = ack_seq]

\* await app.bind(port)
Bind(app, port) ==
  /\ Install([State EXCEPT !.port_map[app_ipcp[app]][port] = app,
                           !.app_port[app] = port])
  /\ last' = [Call("bind", app_ipcp[app], NoFlow, TRUE) EXCEPT !.app = app]

RECURSIVE SumLen(_, _)

\* the summed length of the receive buffers of the applications in S
SumLen(buf, S) ==
  IF S = {}
  THEN 0
  ELSE LET a == CHOOSE x \in S : TRUE
       IN  Len(buf[a]) + SumLen(buf, S \ {a})

\* the number of on_data calls made so far
Delivered(s) == SumLen(s.receive_buffer, Apps)

\* await app.send_reliable(dest_app, data, qos) is called in coroutine c;
\* the destination application has bound its port.  ret: the call returned
SendReliable(c, app, dest_app, p, qos) ==
  /\ reliable[c].pc = "idle"
  /\ app_port[dest_app] = Port
  /\ LET r == send_reliable(State, c, app, dest_app, p, qos)
     IN  /\ r.s.nextId <= MaxFlows + 1
         /\ \A id \in Slots : r.s.flow[id].sent_packets <= MaxSends
         /\ Delivered(r.s) <= MaxSends
         /\ Install(r.s)
         /\ last' = [Call("send_reliable", app_ipcp[app], nextId,
                          ~r.raised /\ r.s.reliable[c].pc = "idle")
                       EXCEPT !.app = app, !.data = p, !.qos = qos,
                              !.error = r.error, !.frames = r.s.frames]

\* the asyncio.sleep(1) of coroutine c ends
ReliableWake(c) ==
  /\ reliable[c].pc = "sleeping"
  /\ LET r == reliable_wake(State, c)
     IN  /\ r.s.nextId <= MaxFlows + 1
         /\ \A id \in Slots : r.s.flow[id].sent_packets <= MaxSends
         /\ Delivered(r.s) <= MaxSends
         /\ Install(r.s)
         /\ last' = [Call("send_reliable", app_ipcp[reliable[c].app], nextId,
                          ~r.raised /\ r.s.reliable[c].pc = "idle")
                       EXCEPT !.app = reliable[c].app,
                              !.data = reliable[c].data,
                              !.qos = reliable[c].qos,
                              !.error = r.error, !.frames = r.s.frames]

\* await self.send_data(flow_id, data) with a bytes payload
SendData(self, flow_id, p) ==
  /\ LET r == send_data(State, self, flow_id, Bytes(p))
     IN  /\ \A id \in Slots : r.s.flow[id].sent_packets <= MaxSends
         /\ Delivered(r.s) <= MaxSends
         /\ Install(r.s)
         /\ last' = [Call("send_data", self, flow_id, ~r.raised)
                       EXCEPT !.data = p, !.error = r.error,
                              !.frames = r.s.frames,
                              !.upcalls = r.s.upcalls]

\* await flow.state_machine.handle_event("deallocate"), for a Flow object
\* the caller holds
FsmDeallocate(id) ==
  /\ flow[id].state # "NONE"
  /\ Install(fsm_deallocate(State, id))
  /\ last' = Call("fsm_deallocate", NoIPCP, id, TRUE)

\* the cancelled retransmission task has ended and _release_resources,
\* which awaited it, runs to its end
ReleaseResources(id) ==
  /\ flow[id].state = "DEALLOCATING"
  /\ flow[id].retransmission_task = "cancelling"
  /\ Install(release_resources_resume(State, id))
  /\ last' = Call("release_resources", NoIPCP, id, TRUE)

\* the packets sent and counted as received where frames and ACKs travel
\* an unreliable channel
AckedPackets == MaxPackets + 1
AckedReceives == MaxReceives + 2

\* await flow.receive_data(packet), for a Flow object the caller holds
FlowReceiveDataUpTo(id, packet, max) ==
  /\ flow[id].state # "NONE"
  /\ flow[id].window_lock = "free"
  /\ is_ack(packet) => flow[id].ack_packets < MaxAcks
  /\ LET r == flow_receive_data(State, id, packet)
     IN  /\ \A i \in Slots : r.s.flow[i].received_packets <= max
         /\ Install(r.s)
         /\ last' = [Call("flow_receive_data", NoIPCP, id, ~r.raised)
                       EXCEPT !.seq = packet.seq_num, !.data = packet.data,
                              !.error = r.error, !.frames = r.s.frames,
                              !.upcalls = r.s.upcalls]

FlowReceiveData(id, packet) == FlowReceiveDataUpTo(id, packet, MaxReceives)

\* a data frame the flow has sent reaches the flow's receive_data, once
\* more or out of order
FrameArrives(id, seq_num) ==
  /\ seq_num < flow[id].next_seq
  /\ FlowReceiveDataUpTo(id, Packet(seq_num, PacketData), AckedReceives)

\* an ACK the flow's receiving side has emitted reaches the flow's
\* receive_data
AckArrives(id, ack_seq) ==
  /\ ack_seq \in flow[id].acks_sent
  /\ FlowReceiveDataUpTo(id, AckPacket(ack_seq), AckedReceives)

\* await self.receive_data(data, flow_id), called on an IPCP directly
ReceiveData(self, data, flow_id) ==
  /\ LET r == receive_data(State, self, data, flow_id)
     IN  /\ \A i \in Slots : r.s.flow[i].received_packets <= MaxReceives
         /\ Delivered(r.s) <= MaxSends
         /\ Install(r.s)
         /\ last' = [Call("receive_data", self, flow_id, ~r.raised)
                       EXCEPT !.data = data.data, !.error = r.error,
                              !.frames = r.s.frames,
                              !.upcalls = r.s.upcalls]

\* flow = Flow(flow_id, src, dest, port, qos) and
\* flow.state_machine = FlowAllocationFSM(flow), by a caller that keeps the
\* object to itself
CreateFlow(src, dest, qos) ==
  /\ nextId <= MaxFlows
  /\ Install([State EXCEPT !.nextId = @ + 1,
                           !.flow[nextId] = NewFlow(src, dest, qos)])
  /\ last' = [Call("create_flow", src, nextId, TRUE)
                EXCEPT !.dest = dest, !.qos = qos]

\* await flow.state_machine.handle_event(event), for a Flow object the
\* caller holds
HandleEvent(id, event) ==
  /\ flow[id].state # "NONE"
  /\ Install(handle_event(State, id, event))
  /\ last' = [Call("handle_event", NoIPCP, id, TRUE)
                EXCEPT !.data = event, !.state = flow[id].state]

\* SequenceNumber(max_value=max_value).is_in_window(seq_num, base_seq, size)
IsInWindow(seq_num, base_seq, size, max_value) ==
  /\ Install(State)
  /\ last' = [Call("is_in_window", NoIPCP, NoFlow,
                   is_in_window(seq_num, base_seq, size, max_value))
                EXCEPT !.seq = seq_num, !.base = base_seq, !.size = size,
                       !.max_value = max_value]

\* x = IPCP(x, dif, lower_ipcp=L) for an IPCP that does not exist yet
ConstructIPCP(x) ==
  /\ higher_ipcp[lower_ipcp[x]] # x
  /\ Install([State EXCEPT !.higher_ipcp[lower_ipcp[x]] = x])
  /\ last' = [Call("IPCP", x, NoFlow, TRUE) EXCEPT !.dest = lower_ipcp[x]]

\* await src_ipcp.send_data(flow_id, data) after set_network_conditions
InterceptedSendData(flow_id, p) ==
  /\ Len(sent[flow_id]) < MaxSends
  /\ LET r == intercepted_send_data(State, flow_id, Bytes(p))
     IN  /\ Install(r.s)
         /\ last' = [Call("intercepted_send_data", LinkSrc, flow_id, r.ret)
                       EXCEPT !.data = p]

\* the task _process_queue takes the next frame from the queue
ProcessQueue(outcome) ==
  /\ net_cond.queue # <<>>
  /\ QueueLoopReady(State)
  /\ outcome = "drop" => net_cond.dropped < MaxDrops
  /\ Install(process_queue(State, outcome))
  /\ last' = Call(outcome, LinkDst, Head(net_cond.queue).flow_id, TRUE)

\* the sleep of a _delayed_delivery coroutine ends
DelayedDelivery(x) ==
  /\ x \in net_cond.delayed
  /\ LET s == delayed_delivery(State, x)
     IN  /\ Install(s)
         /\ last' = [Call("delayed_delivery", x.item.dest_ipcp,
                          x.item.flow_id, TRUE)
                       EXCEPT !.upcalls = s.upcalls]

\* Flow allocation and deallocation on every IPCP
Next ==
  \/ \E p \in Pairs, qos \in QoSArgs : AllocateFlow(p[1], p[2], qos)
  \/ \E self \in IPCPs, flow_id \in FlowIds : DeallocateFlow(self, flow_id)

Spec == Init /\ [][Next]_vars

\* Flow allocation and deallocation mixed with direct calls of the DIF
\* operations; one flow id fewer is drawn than in Spec
NextDIF ==
  \/ \E p \in Pairs, qos \in QoSArgs :
        nextId < MaxFlows /\ AllocateFlow(p[1], p[2], qos)
  \/ \E self \in IPCPs, flow_id \in FlowIds : DeallocateFlow(self, flow_id)
  \/ \E d \in DIFs, b \in Bandwidths : AllocateBandwidth(d, b)
  \/ \E d \in DIFs, b \in Bandwidths : ReleaseBandwidth(d, b)

SpecDIF == Init /\ [][NextDIF]_vars

\* Direct calls of the DIF operations with every bandwidth from 0 up, mixed
\* with the allocation and deallocation of flows that reserve bandwidth
DirectBandwidths == Bandwidths \cup {0}

NextBandwidth ==
  \/ \E d \in DIFs, b \in DirectBandwidths : AllocateBandwidth(d, b)
  \/ \E d \in DIFs, b \in DirectBandwidths : ReleaseBandwidth(d, b)
  \/ \E p \in Pairs, b \in Bandwidths :
        nextId < MaxFlows /\ AllocateFlow(p[1], p[2], QoS(b))
  \/ \E self \in IPCPs, flow_id \in FlowIds : DeallocateFlow(self, flow_id)

SpecBandwidth == Init /\ [][NextBandwidth]_vars

\* Flows requested without QoS, with QoS(bandwidth=None) and with a
\* bandwidth, while direct calls fill and empty the DIFs
UnreservedArgs == {NoQoS, QoS(None)}

NextUnreserved ==
  \/ \E p \in Pairs, qos \in UnreservedArgs \cup {QoS(1)} :
        nextId < MaxFlows /\ AllocateFlow(p[1], p[2], qos)
  \/ \E self \in IPCPs, flow_id \in FlowIds : DeallocateFlow(self, flow_id)
  \/ \E d \in DIFs, b \in Bandwidths : AllocateBandwidth(d, b)
  \/ \E d \in DIFs, b \in Bandwidths : ReleaseBandwidth(d, b)

SpecUnreserved == Init /\ [][NextUnreserved]_vars

\* Flows without QoS, single-layer and layered, with data transfer, the
\* clock and the retransmission tasks
NextRetransmit ==
  \/ \E p \in {<<"A0", "B0">>, <<"A1", "B1">>} : AllocateFlow(p[1], p[2], NoQoS)
  \/ \E self \in IPCPs, flow_id \in FlowIds : DeallocateFlow(self, flow_id)
  \/ \E id \in FlowIds : SendPacket(id)
  \/ TimeElapses
  \/ \E id \in FlowIds : RetransmissionLoop(id)

SpecRetransmit == Init /\ [][NextRetransmit]_vars

\* One flow without QoS between A0 and B0, in either direction, the
\* applications of A0 and B0 binding the port, data sent with
\* IPCP.send_data, and the deallocate event of the flow's state machine
DataPairs == {<<"A0", "B0">>, <<"B0", "A0">>}
DataIPCPs == {"A0", "B0"}
DataApps == {"appA", "appB", "appB2"}

NextData ==
  \/ \E p \in DataPairs : nextId < MaxFlows /\ AllocateFlow(p[1], p[2], NoQoS)
  \/ \E self \in DataIPCPs, flow_id \in FlowIds : DeallocateFlow(self, flow_id)
  \/ \E app \in DataApps, port \in Ports : Bind(app, port)
  \/ \E self \in DataIPCPs, flow_id \in FlowIds, p \in Payloads :
        SendData(self, flow_id, p)
  \/ \E id \in FlowIds : FsmDeallocate(id)
  \/ \E id \in FlowIds : ReleaseResources(id)

SpecData == Init /\ [][NextData]_vars

\* Flows without QoS from A0 to B0, the application of B0, data sent by A0,
\* and the deallocate event of the flows' state machines
NextUpcall ==
  \/ AllocateFlow("A0", "B0", NoQoS)
  \/ Bind("appB", Port)
  \/ \E flow_id \in FlowIds, p \in Payloads : SendData("A0", flow_id, p)
  \/ \E id \in FlowIds : FsmDeallocate(id)
  \/ \E id \in FlowIds : ReleaseResources(id)

SpecUpcall == Init /\ [][NextUpcall]_vars

\* The application of A0 sending to the application of B0 with
\* send_reliable, from two coroutines, without QoS and with a bandwidth,
\* while direct calls fill and empty the DIF
ReliableArgs == {NoQoS, QoS(2)}

NextReliable ==
  \/ Bind("appB", Port)
  \/ \E c \in Callers, p \in Payloads, qos \in ReliableArgs :
        SendReliable(c, "appA", "appB", p, qos)
  \/ \E c \in Callers : ReliableWake(c)
  \/ \E flow_id \in FlowIds : DeallocateFlow("A0", flow_id)
  \/ \E b \in Bandwidths : AllocateBandwidth("D0", b)
  \/ \E b \in Bandwidths : ReleaseBandwidth("D0", b)

SpecReliable == Init /\ [][NextReliable]_vars

\* The send window of one flow without QoS from A0 to B0: packets sent with
\* _send_packet, two coroutines calling Flow.send_data, ACK packets, the
\* retransmission task
WindowFlow == 1
AckSeqs == {0, window_size - 1, window_size, SeqModulus - 1}

NextWindow ==
  \/ nextId = WindowFlow /\ AllocateFlow("A0", "B0", NoQoS)
  \/ SendPacketUpTo(WindowFlow, MaxWindowPackets)
  \/ \E t \in Senders : FlowSendData(t, WindowFlow)
  \/ \E t \in Senders, timed_out \in BOOLEAN : WakeUp(t, timed_out)
  \/ \E ack_seq \in AckSeqs : HandleAck(WindowFlow, ack_seq)
  \/ TimeElapses
  \/ RetransmissionLoop(WindowFlow)

SpecWindow == Init /\ [][NextWindow]_vars

\* The same with every enabled step eventually taken
SpecWindowFair == Init /\ [][NextWindow]_vars /\ WF_vars(NextWindow)

\* The link A0 -> B0 under network conditions: one flow without QoS, the
\* application of B0, and the frames sent through the adapter
LinkOutcomes == {"drop", "reorder", "deliver"}

NextLink ==
  \/ nextId < MaxFlows /\ AllocateFlow(LinkSrc, LinkDst, NoQoS)
  \/ Bind("appB", Port)
  \/ \E flow_id \in FlowIds, p \in Payloads : InterceptedSendData(flow_id, p)
  \/ \E outcome \in LinkOutcomes : ProcessQueue(outcome)
  \/ \E x \in net_cond.delayed : DelayedDelivery(x)

SpecLink == Init /\ [][NextLink]_vars

\* The same with every step of the adapter's tasks eventually taken; the
\* link loses at most MaxDrops frames
SpecLinkFair ==
  /\ Init /\ [][NextLink]_vars
  /\ WF_vars(\E outcome \in LinkOutcomes : ProcessQueue(outcome))
  /\ WF_vars(\E x \in net_cond.delayed : DelayedDelivery(x))

\* The two-layer configuration: a flow without QoS from A1 to B1 carried by
\* a lower flow from A0 to B0, applications on A0, B0 and B1, data sent with
\* IPCP.send_data on the upper layer
LayeredApps == {"appA", "appB", "appA1", "appB1"}

NextLayered ==
  \/ AllocateFlow("A1", "B1", NoQoS)
  \/ \E self \in IPCPs, flow_id \in FlowIds : DeallocateFlow(self, flow_id)
  \/ \E app \in LayeredApps, port \in Ports : Bind(app, port)
  \/ \E self \in {"A1", "B1"}, flow_id \in FlowIds, p \in Payloads :
        SendData(self, flow_id, p)

SpecLayered == Init /\ [][NextLayered]_vars

\* The receiving side: a flow from A0 to B0 and a flow from A1 to B1 over a
\* lower flow, the applications of A0 and B1, and packets handed to
\* Flow.receive_data: the expected sequence number, numbers inside and
\* outside the receive window, an ACK and a bytes object
RecvSeqs == {0, 1, 2, window_size, SeqModulus - 1}
RecvPackets ==
  {Packet(k, PacketData) : k \in RecvSeqs} \cup {AckPacket(0), PacketData}

NextReceive ==
  \/ AllocateFlow("A0", "B0", NoQoS)
  \/ AllocateFlow("A1", "B1", NoQoS)
  \/ \E app \in {"appA", "appB1"} : Bind(app, Port)
  \/ \E id \in FlowIds, packet \in RecvPackets : FlowReceiveData(id, packet)

SpecReceive == Init /\ [][NextReceive]_vars

\* Frames arriving at B0, which has B1 above it, and at B1, which has no
\* IPCP above it: bytes payloads and encapsulated frames, for the flow from
\* A1 to B1 and the flow from A0 to B0 below it
TerminalFrames ==
  {Bytes(p) : p \in Payloads}
    \cup {Encapsulate(id, Bytes(p)) : id \in FlowIds, p \in Payloads}

NextTerminal ==
  \/ AllocateFlow("A1", "B1", NoQoS)
  \/ \E self \in {"A0", "A1"}, flow_id \in FlowIds : DeallocateFlow(self, flow_id)
  \/ \E app \in {"appA1", "appB1"} : Bind(app, Port)
  \/ \E self \in {"B0", "B1"}, data \in TerminalFrames, flow_id \in FlowIds :
        ReceiveData(self, data, flow_id)

SpecTerminal == Init /\ [][NextTerminal]_vars

\* The state machines of flows with a bandwidth between A0 and B0: flows
\* allocated by allocate_flow and Flow objects built by the caller, and
\* every event given to every flow in every state
NextFSM ==
  \/ \E b \in Bandwidths : AllocateFlow("A0", "B0", QoS(b))
  \/ \E b \in Bandwidths : CreateFlow("A0", "B0", QoS(b))
  \/ \E id \in FlowIds, event \in Events : HandleEvent(id, event)
  \/ \E id \in FlowIds : ReleaseResources(id)

SpecFSM == Init /\ [][NextFSM]_vars

\* The same, where a _release_resources that awaits the cancelled
\* retransmission task is resumed by the event loop
SpecFSMFair ==
  SpecFSM /\ \A id \in FlowIds : WF_vars(ReleaseResources(id))

\* A Flow object whose state machine waits in REQUEST_SENT for the
\* confirmation, as start_allocation leaves it before it confirms, with
\* each value of the retry counter; then the events and flows of NextFSM
InitTimeout ==
  /\ flows = [i \in Nodes |-> {}]
  /\ \E retry_count \in 0..retry_limit, b \in Bandwidths :
       flow = [id \in Slots |->
                 IF id = 1
                 THEN [NewFlow("A0", "B0", QoS(b))
                         EXCEPT !.state = "REQUEST_SENT",
                                !.timeout_task = "pending",
                                !.retry_count = retry_count]
                 ELSE NoFlowRec]
  /\ allocated_bandwidth = [d \in DIFs |-> 0]
  /\ nextId = 2
  /\ port_map = [i \in Nodes |-> [p \in Ports |-> NoApp]]
  /\ app_port = [a \in Apps |-> None]
  /\ receive_buffer = [a \in Apps |-> <<>>]
  /\ net_cond = NoTraffic
  /\ sent = [id \in Slots |-> <<>>]
  /\ senders = [t \in Senders |-> NoSender]
  /\ reliable = [c \in Callers |-> NoReliable]
  /\ higher_ipcp = higher_ipcp_init
  /\ last = NoCall

SpecTimeout == InitTimeout /\ [][NextFSM]_vars

\* is_in_window on every sequence number, base and window size of a small
\* sequence space, and on the 2^16 sequence numbers of a flow at the ends of
\* the space and around the window size
EdgeSeqs ==
  {0, 1, window_size - 1, window_size, SeqModulus - window_size - 1,
   SeqModulus - window_size, SeqModulus - 2, SeqModulus - 1}
EdgeSizes == {0, 1, window_size, SeqModulus - 1, SeqModulus}

WindowInputs ==
  ((0..MaxValue) \X (0..MaxValue) \X (0..(MaxValue + 1)) \X {MaxValue})
    \cup (EdgeSeqs \X EdgeSeqs \X EdgeSizes \X {SeqModulus - 1})

NextInWindow ==
  \E i \in WindowInputs : IsInWindow(i[1], i[2], i[3], i[4])

SpecInWindow == Init /\ [][NextInWindow]_vars

\* A flow from A0 to B0 whose frames and ACKs travel a channel that loses,
\* repeats and reorders them: packets sent with _send_packet, the frames
\* sent so far arriving at Flow.receive_data in any order and number, and
\* the ACKs emitted for them arriving at the sender in any order and number

NextAcked ==
  \/ nextId = 1 /\ AllocateFlow("A0", "B0", NoQoS)
  \/ \E app \in {"appA", "appB"} : Bind(app, Port)
  \/ SendPacketUpTo(1, AckedPackets)
  \/ \E seq_num \in 0..(AckedPackets - 1) : FrameArrives(1, seq_num)
  \/ \E ack_seq \in AckSeqs : AckArrives(1, ack_seq)
  \/ TimeElapses
  \/ RetransmissionLoop(1)

SpecAcked == Init /\ [][NextAcked]_vars

\* The two-layer configuration in which B2 is constructed over B0, the
\* lower IPCP of B1, at any moment
NextConstruct ==
  \/ ConstructIPCP("B2")
  \/ AllocateFlow("A1", "B1", NoQoS)
  \/ \E app \in {"appA1", "appB1"} : Bind(app, Port)
  \/ \E flow_id \in FlowIds, p \in Payloads : SendData("A1", flow_id, p)

SpecConstruct == Init /\ [][NextConstruct]_vars

(***************************************************************************)
(* Properties                                                              *)
(***************************************************************************)
SrcOf(id) == flow[id].src_ipcp
DestOf(id) == flow[id].dest_ipcp
Endpoints(id) == {SrcOf(id), DestOf(id)}
Registered(id) == id \in flows[SrcOf(id)] \cup flows[DestOf(id)]
Absent(id) == id \notin flows[SrcOf(id)] /\ id \notin flows[DestOf(id)]

\* C1: after any sequence of allocate_flow, deallocate_flow,
\* allocate_bandwidth and release_bandwidth calls, every DIF has
\* 0 <= allocated_bandwidth <= max_bandwidth.
C1_BandwidthWithinBounds ==
  \A d \in DIFs :
    /\ 0 <= allocated_bandwidth[d]
    /\ allocated_bandwidth[d] <= max_bandwidth[d]

\* C1 witness: a deallocate_flow has released bandwidth while one DIF is
\* full and another is empty.
C1_Witness ==
  /\ last.op = "deallocate_flow" /\ last.released # {}
  /\ \E d \in DIFs : allocated_bandwidth[d] = max_bandwidth[d]
  /\ \E d \in DIFs : allocated_bandwidth[d] = 0

\* C2: between two IPCPs of one DIF, allocate_flow with bandwidth b returns
\* a flow id exactly when allocated_bandwidth + b <= max_bandwidth at the
\* call; a rejected call leaves allocated_bandwidth and both flow tables as
\* they were, and an admitted flow is in both tables.
C2_AdmissionExact ==
  [][LET c == last'
         d == dif[c.ipcp]
     IN  (c.op = "allocate_flow" /\ dif[c.dest] = d
            /\ c.qos.present /\ c.qos.bandwidth # None)
         => /\ c.ret <=> (allocated_bandwidth[d] + c.qos.bandwidth
                            <= max_bandwidth[d])
            /\ ~c.ret => /\ allocated_bandwidth' = allocated_bandwidth
                         /\ flows' = flows
                         /\ c.id \notin flows'[c.ipcp] \cup flows'[c.dest]
            /\ c.ret => c.id \in flows'[c.ipcp] \cap flows'[c.dest]]_vars

\* C2 witness: two admitted flows fill D0 exactly and a further request for
\* bandwidth has just been rejected.
C2_Witness ==
  /\ last.op = "allocate_flow" /\ ~last.ret
  /\ last.ipcp = "A0" /\ last.dest = "B0" /\ last.qos.bandwidth >= 1
  /\ allocated_bandwidth["D0"] = max_bandwidth["D0"]
  /\ Cardinality(flows["A0"] \cap flows["B0"]) = 2

\* C3: when source and destination are in different DIFs and the
\* destination DIF cannot admit the bandwidth while the source DIF can,
\* allocate_flow returns no flow id, the flow is in neither endpoint's
\* table and both DIFs keep their allocated_bandwidth.
C3_DestinationRejects ==
  [][LET c == last'
         b == c.qos.bandwidth
         sd == dif[c.ipcp]
         dd == dif[c.dest]
     IN  (c.op = "allocate_flow" /\ dd # sd /\ HasBandwidth(c.qos)
            /\ allocated_bandwidth[sd] + b <= max_bandwidth[sd]
            /\ allocated_bandwidth[dd] + b > max_bandwidth[dd])
         => /\ ~c.ret
            /\ c.id \notin flows'[c.ipcp] \cup flows'[c.dest]
            /\ allocated_bandwidth' = allocated_bandwidth]_vars

\* C4: when the source IPCP has a lower IPCP and the lower DIF lacks the
\* bandwidth, so that the recursive allocate_flow fails, the upper
\* allocate_flow returns no flow id, the upper flow is in neither endpoint's
\* table and every DIF keeps its allocated_bandwidth.
C4_LowerFailureFailsUpper ==
  [][LET c == last'
         b == c.qos.bandwidth
         ud == dif[c.ipcp]
         ld == dif[lower_ipcp[c.ipcp]]
     IN  (c.op = "allocate_flow" /\ lower_ipcp[c.ipcp] # NoIPCP
            /\ HasBandwidth(c.qos)
            /\ allocated_bandwidth[ud] + b <= max_bandwidth[ud]
            /\ allocated_bandwidth[ld] + b > max_bandwidth[ld])
         => /\ ~c.ret
            /\ c.id \notin flows'[c.ipcp] \cup flows'[c.dest]
            /\ allocated_bandwidth' = allocated_bandwidth]_vars

\* C5: after deallocate_flow(f) returns true on an endpoint of f, f is in
\* neither endpoint's table, and a lower flow of f is in neither lower
\* IPCP's table.
C5_AbsentAfterDeallocate ==
  (last.op = "deallocate_flow" /\ last.ret /\ last.ipcp \in Endpoints(last.id))
  => /\ Absent(last.id)
     /\ flow[last.id].lower_flow_id # NoFlow
          => Absent(flow[last.id].lower_flow_id)

\* C6: an allocate_flow that returns a flow id, followed immediately by
\* deallocate_flow of that id on the same IPCP, leaves every DIF's
\* allocated_bandwidth at its value before the allocation.
C6_AllocateDeallocateRoundTrip ==
  [][(last.op = "allocate_flow" /\ last.ret
        /\ last'.op = "deallocate_flow" /\ last'.id = last.id
        /\ last'.ipcp = last.ipcp)
     => allocated_bandwidth' = last.before]_vars

\* C7: deallocate_flow returns true exactly when the id is in the IPCP's
\* table and then removes it; a call that returns false (an id never
\* allocated, or a second call on the same IPCP) changes no flow table, no
\* Flow and no allocated_bandwidth; and a call that directly follows a
\* successful call for the same id on the same IPCP returns false.
C7_DeallocateIdempotent ==
  [][LET c == last'
     IN  c.op = "deallocate_flow"
         => /\ c.ret <=> c.id \in flows[c.ipcp]
            /\ c.ret => c.id \notin flows'[c.ipcp]
            /\ ~c.ret => /\ flows' = flows
                         /\ flow' = flow
                         /\ allocated_bandwidth' = allocated_bandwidth
            /\ (last.op = "deallocate_flow" /\ last.ret
                  /\ last.id = c.id /\ last.ipcp = c.ipcp) => ~c.ret]_vars

\* C7 witness: a second deallocate_flow of a flow that reserved bandwidth
\* has returned false on the IPCP that already deallocated it.
C7_Witness ==
  /\ last.op = "deallocate_flow" /\ ~last.ret
  /\ flow[last.id].state # "NONE" /\ HasBandwidth(flow[last.id].qos)
  /\ last.ipcp = SrcOf(last.id)
  /\ Absent(last.id)

\* C8: of two deallocate_flow(f) calls issued together on an endpoint of a
\* flow f registered with both endpoints (the event loop runs one, then the
\* other), exactly one returns true, f ends absent from both endpoints'
\* tables, and f's bandwidth is subtracted from each of its DIFs exactly
\* once.
C8_ConcurrentDeallocate ==
  [][LET id == last.id
     IN  (last.op = "deallocate_flow" /\ last.both
            /\ last'.op = "deallocate_flow" /\ last'.id = id
            /\ last.ipcp \in Endpoints(id) /\ last'.ipcp = last.ipcp)
         => /\ last.ret # last'.ret
            /\ id \notin flows'[SrcOf(id)] \cup flows'[DestOf(id)]
            /\ HasBandwidth(flow[id].qos)
                 => \A d \in {dif[SrcOf(id)], dif[DestOf(id)]} :
                      (<<id, d>> \in last.released)
                        # (<<id, d>> \in last'.released)]_vars

\* C9: after deallocate_flow(f) returns true, f's FSM state is CLOSED.
C9_ClosedAfterDeallocate ==
  (last.op = "deallocate_flow" /\ last.ret)
  => flow[last.id].state = "CLOSED"

\* C10: after deallocate_flow(f) returns true the retransmission task of f
\* is no longer running, and no pass of that task retransmits a packet or
\* updates f's statistics once f has left its endpoints' tables.
C10_RetransmissionStopped ==
  /\ (last.op = "deallocate_flow" /\ last.ret)
       => flow[last.id].retransmission_task # "running"
  /\ last.op = "retransmission" => Registered(last.id)

\* C11: IPCP.send_data raises when the flow id is not in the IPCP's flow
\* table (ValueError) and when the flow's FSM state is not ACTIVE
\* (ConnectionError); such a call makes no receive_data, send_data or
\* on_data call and changes no Flow (its statistics included), no flow
\* table, no receive buffer and no DIF.
C11_SendDataErrors ==
  [][LET c == last'
         unknown == c.id \notin flows[c.ipcp]
         inactive == ~unknown /\ flow[c.id].state # "ACTIVE"
     IN  c.op = "send_data"
         => /\ unknown => c.error = "ValueError"
            /\ inactive => c.error = "ConnectionError"
            /\ (unknown \/ inactive)
                 => /\ c.frames = <<>> /\ c.upcalls = <<>>
                    /\ flow' = flow /\ flows' = flows
                    /\ receive_buffer' = receive_buffer
                    /\ allocated_bandwidth' = allocated_bandwidth]_vars

\* C11 witness: send_data has raised ConnectionError on a flow that is in
\* the caller's table, whose state machine has left ACTIVE, and that had
\* delivered data to an application before.
C11_Witness ==
  /\ last.op = "send_data" /\ last.error = "ConnectionError"
  /\ last.id \in flows[last.ipcp]
  /\ flow[last.id].state \in {"DEALLOCATING", "CLOSED"}
  /\ flow[last.id].received_packets > 0
  /\ \E a \in Apps : receive_buffer[a] # <<>>

\* the send_data call of step `c` is made by the source of single-layer
\* flow c.id, which is ACTIVE and in the caller's table, while an
\* application is bound to the flow's port on the destination IPCP
SourceSends(c) ==
  /\ c.op = "send_data"
  /\ c.id \in flows[c.ipcp]
  /\ flow[c.id].state = "ACTIVE"
  /\ flow[c.id].lower_flow_id = NoFlow
  /\ c.ipcp = SrcOf(c.id)
  /\ port_map[DestOf(c.id)][flow[c.id].port] # NoApp

\* the application bound to the port of flow id on its destination IPCP
DestApp(id) == port_map[DestOf(id)][flow[id].port]

\* the on_data calls Application.send(b"pong") makes when it is called by
\* an application of IPCP i: it sends on the first flow g of i's table
PongUpcalls(i) ==
  LET g == SetMin(flows[i])
  IN  IF flow[g].state = "ACTIVE" /\ g \in flows[DestOf(g)]
           /\ DestApp(g) # NoApp
      THEN << <<DestApp(g), Bytes("pong")>> >>
      ELSE <<>>

DeliveredPayloads ==
  [k \in 1..Len(receive_buffer["appB"]) |-> receive_buffer["appB"][k].data]

IsPrefix(a, b) ==
  /\ Len(a) <= Len(b)
  /\ \A k \in 1..Len(a) : a[k] = b[k]

\* C13: on a flow whose link delays, drops or reorders frames, the payloads
\* handed to the destination application's on_data are, in order, a prefix
\* of the payloads that send_data accepted
C13_InOrderPrefix ==
  \A id \in FlowIds :
    flow[id].src_ipcp = LinkSrc /\ flow[id].dest_ipcp = LinkDst
      => IsPrefix(DeliveredPayloads, sent[id])

\* the k-th payload the link accepted on flow id has reached the application
DeliveredK(id, k) ==
  /\ Len(sent[id]) >= k
  /\ \E j \in 1..Len(receive_buffer["appB"]) :
       receive_buffer["appB"][j].data = sent[id][k]

\* C14: on a flow registered at both endpoints with an application bound at
\* the destination, over a link that loses at most MaxDrops frames, every
\* payload send_data accepted is eventually handed to the destination
\* application, and a lost frame is eventually retransmitted
C14_EventualDelivery ==
  \A id \in FlowIds : \A k \in 1..MaxSends :
    /\ (/\ Len(sent[id]) >= k
        /\ id \in flows[LinkDst]
        /\ port_map[LinkDst][Port] = "appB")
         ~> DeliveredK(id, k)
    /\ (net_cond.dropped > 0) ~> (flow[id].retransmitted_packets > 0)
\* the steps of Flow.send_data calls, of ACK processing and of the
\* retransmission task
WindowOps == {"flow_send_data", "wake_up", "handle_ack", "retransmission"}

\* C15: no step of a Flow.send_data call, of ACK processing or of the
\* retransmission task takes unacked_packets of a flow above window_size, and
\* a send_data call draws its sequence number only in a state where the
\* window has a free slot: while the window is full the call has no sequence
\* number, and its steps draw none and send nothing
C15_WindowBound ==
  [][\A id \in FlowIds :
       /\ (/\ last'.op \in WindowOps
           /\ Cardinality(flow[id].unacked_packets) <= window_size)
            => Cardinality(flow'[id].unacked_packets) <= window_size
       /\ (/\ last'.op \in {"flow_send_data", "wake_up"}
           /\ window_full(flow[id]))
            => /\ flow'[id].next_seq = flow[id].next_seq
               /\ flow'[id].sent_packets = flow[id].sent_packets
               /\ flow'[id].unacked_packets = flow[id].unacked_packets
       /\ \A t \in Senders :
            /\ (senders'[t].id = id /\ senders'[t].seq_num # senders[t].seq_num)
                 => Cardinality(flow[id].unacked_packets) < window_size
            /\ (senders'[t].id = id /\ senders'[t].pc = "waiting")
                 => senders'[t].seq_num = None
     ]_vars

\* a send_data call that found the window full has drawn its sequence number
\* after an ACK emptied a slot
C15_Witness ==
  \E t \in Senders :
    /\ senders[t].waited
    /\ senders[t].pc = "in_send_packet"
    /\ senders[t].seq_num = window_size
    /\ flow[senders[t].id].ack_packets > 0
    /\ Cardinality(flow[senders[t].id].unacked_packets) < window_size

\* C16: a send_data call on an ACTIVE flow that found a free slot in the
\* window and the window guard free, and so drew its sequence number,
\* eventually returns that sequence number
C16_SendDataReturns ==
  \A t \in Senders :
    (senders[t].pc = "in_send_packet") ~> (senders[t].pc = "returned")
\* Call c is a send_data on the source of a flow of the upper layer that is
\* ACTIVE and in the tables of both its endpoints, carried by a lower flow
\* that is ACTIVE and in the tables of both lower IPCPs, with an application
\* bound to the port on the destination
LayeredSend(c) ==
  /\ c.op = "send_data"
  /\ c.ipcp = "A1"
  /\ InBothTables(c.id)
  /\ flow[c.id].state = "ACTIVE"
  /\ SrcOf(c.id) = "A1" /\ DestOf(c.id) = "B1"
  /\ flow[c.id].lower_flow_id # NoFlow
  /\ InBothTables(flow[c.id].lower_flow_id)
  /\ flow[flow[c.id].lower_flow_id].state = "ACTIVE"
  /\ DestApp(c.id) # NoApp

\* C17: in the two-layer configuration every A1.send_data(f, p) on an
\* allocated flow f sends one frame that encapsulates p under flow id f on
\* the lower flow at A0, which B0 receives and hands to B1 under flow id f,
\* and p is delivered exactly once to the application bound to the port on
\* B1 and to no other application
C17_EncapsulatedDelivery ==
  [][LayeredSend(last') =>
       LET f == last'.id
           l == flow[f].lower_flow_id
           p == Bytes(last'.data)
           frame == Encapsulate(f, p)
       IN  /\ last'.ret
           /\ Occurrences(last'.frames, <<"send_data", "A0", l, frame>>) = 1
           /\ Occurrences(last'.frames, <<"receive_data", "B0", l, frame>>) = 1
           /\ Occurrences(last'.frames, <<"receive_data", "B1", f, p>>) = 1
           /\ Occurrences(last'.upcalls, <<DestApp(f), p>>) = 1
           /\ \A a \in Apps \ {DestApp(f)} :
                /\ Occurrences(last'.upcalls, <<a, p>>) = 0
                /\ receive_buffer'[a] = receive_buffer[a]
           /\ Len(receive_buffer'[DestApp(f)])
                > Len(receive_buffer[DestApp(f)])
     ]_vars

\* C17 witness: A1 has sent on the flow while applications were bound on
\* A0, B0, A1 and B1, and only the application of B1 has the payload
C17_Witness ==
  /\ last.op = "send_data" /\ last.ipcp = "A1" /\ last.ret
  /\ InBothTables(last.id) /\ flow[last.id].lower_flow_id # NoFlow
  /\ port_map["A0"][Port] = "appA" /\ port_map["B0"][Port] = "appB"
  /\ port_map["A1"][Port] = "appA1" /\ port_map["B1"][Port] = "appB1"
  /\ last.upcalls # <<>>
  /\ last.upcalls[1] = <<"appB1", Bytes(last.data)>>
  /\ receive_buffer["appA"] = <<>> /\ receive_buffer["appB"] = <<>>
  /\ receive_buffer["appA1"] = <<>>
\* C18: allocate_flow for a flow requested with no QoS, or with a QoS whose
\* bandwidth is None, returns a flow id whatever the DIFs have allocated,
\* and neither that allocation nor the deallocation of such a flow changes
\* the allocated_bandwidth of any DIF
C18_UnreservedFlows ==
  [][/\ (last'.op = "allocate_flow" /\ last'.qos \in UnreservedArgs)
          => /\ last'.ret
             /\ last'.id \in flows'[last'.ipcp]
             /\ flow'[last'.id].state = "ACTIVE"
             /\ allocated_bandwidth' = allocated_bandwidth
     /\ (/\ last'.op = "deallocate_flow"
         /\ last'.id \in flows[last'.ipcp]
         /\ flow[last'.id].qos \in UnreservedArgs)
          => allocated_bandwidth' = allocated_bandwidth
    ]_vars

\* C18 witness: a flow with QoS(bandwidth=None) was allocated while the DIFs
\* of its source and its destination had no bandwidth left
C18_Witness ==
  /\ last.op = "allocate_flow" /\ last.ret
  /\ last.qos = QoS(None)
  /\ dif[last.ipcp] # dif[last.dest]
  /\ allocated_bandwidth[dif[last.ipcp]] >= max_bandwidth[dif[last.ipcp]]
  /\ allocated_bandwidth[dif[last.dest]] >= max_bandwidth[dif[last.dest]]

\* C19: after any sequence of allocate_flow and deallocate_flow calls on any
\* endpoint, a flow id is in the flow table of its source IPCP if and only
\* if it is in the flow table of its destination IPCP
C19_TablesMirrored ==
  \A id \in FlowIds :
    flow[id].state # "NONE"
      => (id \in flows[SrcOf(id)] <=> id \in flows[DestOf(id)])

\* C20: bind(port) by an application on a port that is bound to another
\* application of the same IPCP fails and leaves port_map[port] pointing to
\* the first application
C20_SecondBindFails ==
  [][(/\ last'.op = "bind"
      /\ port_map[last'.ipcp][Port] # NoApp
      /\ port_map[last'.ipcp][Port] # last'.app)
       => /\ ~last'.ret
          /\ port_map'[last'.ipcp][Port] = port_map[last'.ipcp][Port]
    ]_vars

\* C21: an exception raised by the destination application's on_data does
\* not reach the caller of send_data on the source: a send_data on an ACTIVE
\* flow that is in both tables, with an application bound at the
\* destination, returns normally
C21_UpcallFailureContained ==
  [][SourceSends(last') => (last'.ret /\ last'.error = "none")]_vars

\* C22: send_reliable allocates a flow only in a state where the sender's
\* IPCP holds no flow to the destination application's IPCP and port, a
\* call that returns has sent its payload once on its flow, a failed
\* allocation attempt leaves no flow registered, and the call that gives up
\* raises an error
C22_SendReliable ==
  [][last'.op = "send_reliable" =>
       /\ nextId' > nextId => matching_flows(State, "appA", "appB") = {}
       /\ last'.ret =>
            \E id \in flows[last'.ipcp] \cup flows'[last'.ipcp] :
              /\ flow'[id].dest_ipcp = "B0"
              /\ \A k \in 1..Len(last'.frames) :
                   (last'.frames[k][1] = "send_data"
                      /\ last'.frames[k][2] = last'.ipcp
                      /\ last'.frames[k][4] = Bytes(last'.data))
                     <=> (k = 1 /\ last'.frames[k][3] = id)
       /\ nextId' = nextId => flows' = flows
    ]_vars

\* C23: allocate_bandwidth(b) on a DIF, for a b >= 0, returns true exactly
\* when allocated_bandwidth + b <= max_bandwidth and then adds exactly b to
\* that DIF's allocated_bandwidth; otherwise it returns false and changes no
\* allocated_bandwidth
C23_AllocateBandwidth ==
  [][last'.op = "allocate_bandwidth" =>
       LET d == last'.dif
           b == last'.qos.bandwidth
       IN  IF allocated_bandwidth[d] + b <= max_bandwidth[d]
           THEN /\ last'.ret
                /\ allocated_bandwidth' =
                     [allocated_bandwidth EXCEPT ![d] = @ + b]
           ELSE /\ ~last'.ret
                /\ allocated_bandwidth' = allocated_bandwidth
    ]_vars

\* C23 witness: a call was granted that took the DIF exactly to its
\* max_bandwidth, while another DIF was already full
C23_Witness ==
  /\ last.op = "allocate_bandwidth" /\ last.ret
  /\ last.qos.bandwidth > 0
  /\ allocated_bandwidth[last.dif] = max_bandwidth[last.dif]
  /\ \E d \in DIFs \ {last.dif} : allocated_bandwidth[d] = max_bandwidth[d]

\* the distance from sequence number a up to b in the order modulo 2^16
Ahead(a, b) == (b - a + SeqModulus) % SeqModulus

\* The sequence numbers an ACK for k acknowledges on a flow with record f:
\* those from send_base up to k.  k lies before send_base, and the ACK
\* acknowledges nothing, when going up from send_base it is reached only
\* after more than half of the 2^16 sequence numbers
Acknowledged(f, k) ==
  IF Ahead(f.send_base, k) < SeqModulus \div 2
  THEN {seq \in f.unacked_packets :
          Ahead(f.send_base, seq) <= Ahead(f.send_base, k)}
  ELSE {}

\* C24: processing an ACK with ack_seq_num = k removes from unacked_packets
\* exactly the sequence numbers from send_base up to k modulo 2^16 and leaves
\* every other entry; an ACK whose k lies before send_base, and an ACK of
\* 2^16 - 1 that arrives before anything was acknowledged, remove nothing
C24_AckRemovesInterval ==
  [][last'.op = "handle_ack" =>
       flow'[last'.id].unacked_packets =
         flow[last'.id].unacked_packets
           \ Acknowledged(flow[last'.id], last'.seq)
    ]_vars

\* C25: after an ACK is processed send_base is the smallest sequence number
\* left in unacked_packets, or, when none is left, the next sequence number
\* the sender will assign
C25_SendBaseAfterAck ==
  [][last'.op = "handle_ack" =>
       LET f == flow'[last'.id]
       IN  f.send_base = IF f.unacked_packets # {}
                         THEN SetMin(f.unacked_packets)
                         ELSE f.next_seq
    ]_vars
\* the receive base once the expected frame and the buffered frames that
\* follow it are delivered
RECURSIVE Drain(_, _)
Drain(base, buffer) ==
  IF base \in buffer THEN Drain((base + 1) % SeqModulus, buffer \ {base})
  ELSE base

\* a step of Flow.receive_data on a data frame
ReceivesFrame(c) ==
  c.op = "flow_receive_data" /\ c.seq # None /\ c.data # "is_ack"

\* the payloads of data frames the step handed to applications
DeliveredFrames(c) ==
  {k \in 1..Len(c.upcalls) : c.upcalls[k][2].data = PacketData.data}

\* C26: Flow.receive_data delivers in sequence order, each number once: a
\* frame with seq = recv_base is delivered and recv_base moves past it and
\* past the buffered frames that follow; a frame elsewhere in the window is
\* only buffered; a frame outside the window changes nothing
C26_ReceiveInOrder ==
  [][ReceivesFrame(last') =>
       LET f == flow[last'.id]
           g == flow'[last'.id]
           k == last'.seq
           next == Drain((k + 1) % SeqModulus, f.out_of_order_buffer)
       IN  IF k = f.recv_base
           THEN /\ last'.ret
                /\ g.recv_base = next
                /\ g.out_of_order_buffer =
                     {b \in f.out_of_order_buffer : Ahead(next, b) < window_size}
           ELSE IF Ahead(f.recv_base, k) < window_size
           THEN /\ g.recv_base = f.recv_base
                /\ g.out_of_order_buffer = f.out_of_order_buffer \cup {k}
                /\ DeliveredFrames(last') = {}
           ELSE /\ g.recv_base = f.recv_base
                /\ g.out_of_order_buffer = f.out_of_order_buffer
                /\ DeliveredFrames(last') = {}]_vars

\* the ACK frames a step passed to IPCP.receive_data, each counted at the
\* IPCP that unwrapped it
EmittedAcks(c) ==
  {k \in 1..Len(c.frames) :
     /\ c.frames[k][1] = "receive_data"
     /\ c.frames[k][4].header = NoFlow
     /\ c.frames[k][4].data = "is_ack"}

\* C27: every data frame Flow.receive_data processes triggers exactly one
\* ACK, which carries (recv_base - 1) mod 2^16 as it is after the frame
C27_OneAckPerFrame ==
  [][ReceivesFrame(last') =>
       /\ Cardinality(EmittedAcks(last')) = 1
       /\ \A k \in EmittedAcks(last') :
            last'.frames[k][4].seq_num =
              (flow'[last'.id].recv_base - 1 + SeqModulus) % SeqModulus]_vars

\* C28: every ACK the receiving side emits is processed as an
\* acknowledgment by the flow's source endpoint, and no ACK frame is handed
\* to an application's on_data
C28_AckReachesSource ==
  [][ReceivesFrame(last') =>
       /\ flow'[last'.id].ack_packets =
            flow[last'.id].ack_packets + Cardinality(EmittedAcks(last'))
       /\ \A k \in 1..Len(last'.upcalls) :
            last'.upcalls[k][2].data # "is_ack"]_vars

\* the frame the call of the step was given
FrameOf(c) == c.frames[1][4]

\* C29: an encapsulated frame that IPCP.receive_data gets on an IPCP with no
\* higher_ipcp is unwrapped and its payload processed for the flow named in
\* its header: with the flow in the IPCP's table and an application bound to
\* its port, the payload reaches that application
C29_TerminalUnwraps ==
  [][(/\ last'.op = "receive_data"
      /\ IsEncapsulated(FrameOf(last'))
      /\ higher_ipcp[last'.ipcp] = NoIPCP
      /\ FrameOf(last').header \in flows[last'.ipcp]
      /\ port_map[last'.ipcp][Port] # NoApp)
       => \E k \in 1..Len(last'.upcalls) :
            last'.upcalls[k] =
              <<port_map[last'.ipcp][Port], Payload(FrameOf(last'))>>]_vars

\* C30: CLOSED is absorbing and deallocate is terminal: the deallocate event
\* in a state other than CLOSED and DEALLOCATING starts the deallocation,
\* which ends in CLOSED, and an event given in state CLOSED changes neither
\* the state, nor the retry counter, nor the allocated bandwidth of a DIF
C30_ClosedAbsorbing ==
  /\ [][last'.op = "handle_event" =>
          LET f == flow[last'.id]
              g == flow'[last'.id]
          IN  /\ f.state = "CLOSED" =>
                   /\ g.state = "CLOSED"
                   /\ g.retry_count = f.retry_count
                   /\ allocated_bandwidth' = allocated_bandwidth
              /\ (last'.data = "deallocate"
                    /\ f.state \notin {"CLOSED", "DEALLOCATING"}) =>
                   g.state \in {"DEALLOCATING", "CLOSED"}]_vars
  /\ \A id \in FlowIds :
       (flow[id].state = "DEALLOCATING") ~> (flow[id].state = "CLOSED")

\* deallocate was given to a CLOSED flow with a bandwidth while the DIF still
\* holds the bandwidth of another flow
C30_Witness ==
  /\ last.op = "handle_event"
  /\ last.data = "deallocate"
  /\ last.state = "CLOSED"
  /\ HasBandwidth(flow[last.id].qos)
  /\ allocated_bandwidth["D0"] > 0

\* C31: whatever FSM events a flow is given, and however two deallocate
\* events overlap at the suspension inside the release, _release_resources
\* is called at most once, and exactly once when a deallocate event has
\* been handled
C31_ReleaseOnce ==
  /\ [](\A id \in FlowIds : flow[id].release_calls <= 1)
  /\ [][(last'.op = "handle_event" /\ last'.data = "deallocate")
          => flow'[last'.id].release_calls = 1]_vars

\* a second deallocate was handled while the first one is suspended in
\* _release_resources
C31_Witness ==
  /\ last.op = "handle_event"
  /\ last.data = "deallocate"
  /\ last.state = "DEALLOCATING"
  /\ flow[last.id].retransmission_task = "cancelling"
  /\ flow[last.id].release_calls = 1

NeverCommitted(f) == f.state # "NONE" /\ f.retransmission_task = "none"

\* C33: the deallocate event on a flow whose bandwidth was never committed
\* changes the allocated bandwidth of no DIF
C33_ReleaseUncommitted ==
  [][(/\ last'.op = "handle_event"
      /\ last'.data = "deallocate"
      /\ NeverCommitted(flow[last'.id]))
       => allocated_bandwidth' = allocated_bandwidth]_vars

RECURSIVE ReceivedPackets(_)

\* stats['received_packets'] summed over the flows in S
ReceivedPackets(S) ==
  IF S = {}
  THEN 0
  ELSE LET id == CHOOSE x \in S : TRUE
       IN  flow[id].received_packets + ReceivedPackets(S \ {id})

\* C34: received_packets counts the payloads handed to the application's
\* on_data for the flow and nothing else: over all flows it equals the
\* number of payloads the applications have received
C34_ReceivedCountsDeliveries ==
  ReceivedPackets(Slots) = SumLen(receive_buffer, Apps)

\* C35: is_in_window(seq, base, w) is true exactly when (seq - base) mod N
\* is less than w, N being max_value + 1, for every seq and base below N and
\* every w from 0 to N
C35_InWindowModular ==
  last.op = "is_in_window" =>
    LET N == last.max_value + 1
    IN  last.ret = (((last.seq - last.base + N) % N) < last.size)

\* a sequence number below the base that a window wrapping past 2^16 holds
C35_Witness ==
  /\ last.op = "is_in_window"
  /\ last.max_value = SeqModulus - 1
  /\ last.base + last.size > SeqModulus
  /\ last.seq < last.base
  /\ last.ret

\* the flows registered in the flow table of some IPCP
RegisteredFlows == UNION {flows[i] : i \in IPCPs}

RECURSIVE SumBandwidth(_)

\* qos.bandwidth summed over the flows in S
SumBandwidth(S) ==
  IF S = {}
  THEN 0
  ELSE LET id == CHOOSE x \in S : TRUE
       IN  flow[id].qos.bandwidth + SumBandwidth(S \ {id})

\* the bandwidth of the registered flows that have an endpoint in DIF d
LiveReservations(d) ==
  SumBandwidth({id \in RegisteredFlows :
                  /\ HasBandwidth(flow[id].qos)
                  /\ d \in {dif[flow[id].src_ipcp], dif[flow[id].dest_ipcp]}})

\* C36: between two calls each DIF's allocated_bandwidth is the sum of the
\* bandwidths of the registered flows with an endpoint in that DIF
C36_BandwidthConservation ==
  \A d \in DIFs : allocated_bandwidth[d] = LiveReservations(d)

\* C37: whichever endpoints call deallocate_flow for a flow, and in
\* whichever order, at most one of the calls returns True
C37_OneDeallocation ==
  \A id \in FlowIds : flow[id].deallocated <= 1

\* C38: a sequence number leaves unacked_packets only when the receiving
\* side has delivered its payload in order, that is when recv_base has
\* moved past it
C38_DiscardAfterDelivery ==
  [][\A id \in FlowIds :
       \A seq \in flow[id].unacked_packets \ flow'[id].unacked_packets :
         /\ Ahead(seq, flow'[id].recv_base) >= 1
         /\ Ahead(seq, flow'[id].recv_base) < SeqModulus \div 2]_vars

\* C39: every IPCP x constructed over a lower IPCP L stays L's higher_ipcp,
\* also when another IPCP is constructed over L
C39_HigherOfLower ==
  \A x \in IPCPs :
    lower_ipcp[x] # NoIPCP => higher_ipcp[lower_ipcp[x]] = x

\* C40: a payload handed to send_data on an IPCP is never delivered to an
\* application bound on that IPCP: the payload of the call is not, and the
\* b"pong" an application sends in answer to b"ping" is not delivered on the
\* IPCP of the application that sent it
C40_DeliveredToOtherEnd ==
  [][last'.op = "send_data" =>
       LET u == last'.upcalls
       IN  \A k \in 1..Len(u) :
             IF u[k][2] = Bytes("pong")
             THEN k > 1 => app_ipcp[u[k][1]] # app_ipcp[u[k - 1][1]]
             ELSE app_ipcp[u[k][1]] # last'.ipcp]_vars

====
